---- MODULE Spec2Model ----
(***************************************************************************)
(* State-machine models of the crawler scripts of DataTradeCentre.         *)
(* Every script is an independent program; the variable prog names the     *)
(* script that is running, and each script keeps its state (process state, *)
(* files on disk, the remote source it reads) in one record variable.      *)
(*   cy  : src/川渝/cl.py        resumable, JSONL log + checkpoint         *)
(*   hb  : src/湖北/cl.py        browser crawl, JSONL log + checkpoint     *)
(*   hf  : src/安徽/合肥中心.py  resumable, buffered CSV + progress file   *)
(*   heb : src/河北/cl1.py       list loop                                 *)
(*   nm  : src/内蒙古/cl.py      crawl_all over the scene types            *)
(*   hn  : src/湖南/cl.py        list pages with a detail call per record  *)
(*   bj  : src/北京/cl.py        crawl_all                                 *)
(*   ha  : src/河南/cl.py        crawl_all                                 *)
(*   sd  : src/山东/cl.py        crawl_one_platsource                      *)
(*   rq  : one call of a fetch function with retries (川渝, 天津, 山东, 河南)*)
(*   sx  : src/山西/cl.py        crawl_all over 1..totalPage               *)
(*   hi  : src/海南/cl.py        crawl_all over 1..totalPage               *)
(*   sh  : src/上海/cl.py        crawl_all_to_csv                          *)
(*   gs  : src/甘肃/cl.py        scrape_all                                *)
(*   gx  : src/广西/cl.py        crawl_all                                 *)
(*   gz  : src/贵州/cl.py        JSONL log appended page by page           *)
(*   tb  : src/安徽/合肥中心.py   the CSV table written by scrape_all, write_csv, save_csv*)
(*   tg  : src/安徽/cl.py        the tag summary of one record             *)
(*   ds  : src/数据清洗/tag.py    one call of call_deepseek_json           *)
(*   rs  : three fetchers   the classification of a 2xx response           *)
(*   nz  : 内蒙古, 山西      the normalization of the records of one page  *)
(*   dk  : 山东, 广东, 川渝    the deduplication of rows by their key      *)
(*   fl  : 合肥中心, 山东     one record value written with two key orders *)
(*   pl  : 河北 cl1, 数据清洗  thread pool of the detail step                 *)
(*   dt  : src/湖北/get_date.py  the workers of the certificate-date step  *)
(*   sl  : 山西, 江苏, 青岛      the page requests and the sleeps between them*)
(*   bo  : src/川渝/cl.py        the waits and the session of post_page_robust*)
(*   dp  : src/山东/cl.py        the total pages detected from the payloads*)
(*   rr  : 合肥中心, 川渝        a run after a run that reached the end    *)
(*   tm  : 甘肃, 河北, 江西, 合肥中心  the page loop until it stops        *)
(*   mp  : 合肥中心, 合肥数据流通, 江苏, 福建   the pages requested under max_pages*)
(***************************************************************************)
EXTENDS Integers, Sequences, FiniteSets, TLC

VARIABLES prog, cy, hb, hf, heb, nm, hn, bj, ha, sd, rq, sx, hi, sh, gs, gx, gz, tb, tg, ds, rs, nz, dk, fl, pl, dt, sl, bo, dp, rr, tm, mp

vars == <<prog, cy, hb, hf, heb, nm, hn, bj, ha, sd, rq, sx, hi, sh, gs, gx, gz, tb, tg, ds, rs, nz, dk, fl, pl, dt, sl, bo, dp, rr, tm, mp>>

\* what an action of one script leaves alone: the other scripts
OthersCY  == <<prog, hb, hf, heb, nm, hn, bj, ha, sd, rq, sx, hi, sh, gs, gx, gz, tb, tg, ds, rs, nz, dk, fl, pl, dt, sl, bo, dp, rr, tm, mp>>
OthersHB  == <<prog, cy, hf, heb, nm, hn, bj, ha, sd, rq, sx, hi, sh, gs, gx, gz, tb, tg, ds, rs, nz, dk, fl, pl, dt, sl, bo, dp, rr, tm, mp>>
OthersHF  == <<prog, cy, hb, heb, nm, hn, bj, ha, sd, rq, sx, hi, sh, gs, gx, gz, tb, tg, ds, rs, nz, dk, fl, pl, dt, sl, bo, dp, rr, tm, mp>>
OthersHEB == <<prog, cy, hb, hf, nm, hn, bj, ha, sd, rq, sx, hi, sh, gs, gx, gz, tb, tg, ds, rs, nz, dk, fl, pl, dt, sl, bo, dp, rr, tm, mp>>
OthersNM  == <<prog, cy, hb, hf, heb, hn, bj, ha, sd, rq, sx, hi, sh, gs, gx, gz, tb, tg, ds, rs, nz, dk, fl, pl, dt, sl, bo, dp, rr, tm, mp>>
OthersHN  == <<prog, cy, hb, hf, heb, nm, bj, ha, sd, rq, sx, hi, sh, gs, gx, gz, tb, tg, ds, rs, nz, dk, fl, pl, dt, sl, bo, dp, rr, tm, mp>>
OthersBJ  == <<prog, cy, hb, hf, heb, nm, hn, ha, sd, rq, sx, hi, sh, gs, gx, gz, tb, tg, ds, rs, nz, dk, fl, pl, dt, sl, bo, dp, rr, tm, mp>>
OthersHA  == <<prog, cy, hb, hf, heb, nm, hn, bj, sd, rq, sx, hi, sh, gs, gx, gz, tb, tg, ds, rs, nz, dk, fl, pl, dt, sl, bo, dp, rr, tm, mp>>
OthersSD  == <<prog, cy, hb, hf, heb, nm, hn, bj, ha, rq, sx, hi, sh, gs, gx, gz, tb, tg, ds, rs, nz, dk, fl, pl, dt, sl, bo, dp, rr, tm, mp>>
OthersRQ  == <<prog, cy, hb, hf, heb, nm, hn, bj, ha, sd, sx, hi, sh, gs, gx, gz, tb, tg, ds, rs, nz, dk, fl, pl, dt, sl, bo, dp, rr, tm, mp>>
OthersSX  == <<prog, cy, hb, hf, heb, nm, hn, bj, ha, sd, rq, hi, sh, gs, gx, gz, tb, tg, ds, rs, nz, dk, fl, pl, dt, sl, bo, dp, rr, tm, mp>>
OthersHI  == <<prog, cy, hb, hf, heb, nm, hn, bj, ha, sd, rq, sx, sh, gs, gx, gz, tb, tg, ds, rs, nz, dk, fl, pl, dt, sl, bo, dp, rr, tm, mp>>
OthersSH  == <<prog, cy, hb, hf, heb, nm, hn, bj, ha, sd, rq, sx, hi, gs, gx, gz, tb, tg, ds, rs, nz, dk, fl, pl, dt, sl, bo, dp, rr, tm, mp>>
OthersGS  == <<prog, cy, hb, hf, heb, nm, hn, bj, ha, sd, rq, sx, hi, sh, gx, gz, tb, tg, ds, rs, nz, dk, fl, pl, dt, sl, bo, dp, rr, tm, mp>>
OthersGX  == <<prog, cy, hb, hf, heb, nm, hn, bj, ha, sd, rq, sx, hi, sh, gs, gz, tb, tg, ds, rs, nz, dk, fl, pl, dt, sl, bo, dp, rr, tm, mp>>
OthersGZ  == <<prog, cy, hb, hf, heb, nm, hn, bj, ha, sd, rq, sx, hi, sh, gs, gx, tb, tg, ds, rs, nz, dk, fl, pl, dt, sl, bo, dp, rr, tm, mp>>
OthersTB  == <<prog, cy, hb, hf, heb, nm, hn, bj, ha, sd, rq, sx, hi, sh, gs, gx, gz, tg, ds, rs, nz, dk, fl, pl, dt, sl, bo, dp, rr, tm, mp>>
OthersTG  == <<prog, cy, hb, hf, heb, nm, hn, bj, ha, sd, rq, sx, hi, sh, gs, gx, gz, tb, ds, rs, nz, dk, fl, pl, dt, sl, bo, dp, rr, tm, mp>>
OthersDS  == <<prog, cy, hb, hf, heb, nm, hn, bj, ha, sd, rq, sx, hi, sh, gs, gx, gz, tb, tg, rs, nz, dk, fl, pl, dt, sl, bo, dp, rr, tm, mp>>
OthersRS  == <<prog, cy, hb, hf, heb, nm, hn, bj, ha, sd, rq, sx, hi, sh, gs, gx, gz, tb, tg, ds, nz, dk, fl, pl, dt, sl, bo, dp, rr, tm, mp>>
OthersNZ  == <<prog, cy, hb, hf, heb, nm, hn, bj, ha, sd, rq, sx, hi, sh, gs, gx, gz, tb, tg, ds, rs, dk, fl, pl, dt, sl, bo, dp, rr, tm, mp>>
OthersDK  == <<prog, cy, hb, hf, heb, nm, hn, bj, ha, sd, rq, sx, hi, sh, gs, gx, gz, tb, tg, ds, rs, nz, fl, pl, dt, sl, bo, dp, rr, tm, mp>>
OthersFL  == <<prog, cy, hb, hf, heb, nm, hn, bj, ha, sd, rq, sx, hi, sh, gs, gx, gz, tb, tg, ds, rs, nz, dk, pl, dt, sl, bo, dp, rr, tm, mp>>
OthersPL  == <<prog, cy, hb, hf, heb, nm, hn, bj, ha, sd, rq, sx, hi, sh, gs, gx, gz, tb, tg, ds, rs, nz, dk, fl, dt, sl, bo, dp, rr, tm, mp>>
OthersDT  == <<prog, cy, hb, hf, heb, nm, hn, bj, ha, sd, rq, sx, hi, sh, gs, gx, gz, tb, tg, ds, rs, nz, dk, fl, pl, sl, bo, dp, rr, tm, mp>>
OthersSL  == <<prog, cy, hb, hf, heb, nm, hn, bj, ha, sd, rq, sx, hi, sh, gs, gx, gz, tb, tg, ds, rs, nz, dk, fl, pl, dt, bo, dp, rr, tm, mp>>
OthersBO  == <<prog, cy, hb, hf, heb, nm, hn, bj, ha, sd, rq, sx, hi, sh, gs, gx, gz, tb, tg, ds, rs, nz, dk, fl, pl, dt, sl, dp, rr, tm, mp>>
OthersDP  == <<prog, cy, hb, hf, heb, nm, hn, bj, ha, sd, rq, sx, hi, sh, gs, gx, gz, tb, tg, ds, rs, nz, dk, fl, pl, dt, sl, bo, rr, tm, mp>>
OthersRR  == <<prog, cy, hb, hf, heb, nm, hn, bj, ha, sd, rq, sx, hi, sh, gs, gx, gz, tb, tg, ds, rs, nz, dk, fl, pl, dt, sl, bo, dp, tm, mp>>
OthersTM  == <<prog, cy, hb, hf, heb, nm, hn, bj, ha, sd, rq, sx, hi, sh, gs, gx, gz, tb, tg, ds, rs, nz, dk, fl, pl, dt, sl, bo, dp, rr, mp>>
OthersMP  == <<prog, cy, hb, hf, heb, nm, hn, bj, ha, sd, rq, sx, hi, sh, gs, gx, gz, tb, tg, ds, rs, nz, dk, fl, pl, dt, sl, bo, dp, rr, tm>>

(* ---------------------------------------------------------------- bounds *)
\* number of records the remote source holds, at most
MaxItems == 3
\* largest natural id (goodsId, detail_url, id) a record carries
MaxId == 2
\* number of process starts (first run plus restarts) of one crawl
MaxRuns == 2

(* --------------------------------------------------------------- helpers *)
\* Python None for an id field
NoId == 0

Min(a, b) == IF a < b THEN a ELSE b

Last(s) == s[Len(s)]

\* all sequences over S of length 0..n
SeqsUpTo(S, n) == UNION {[1..k -> S] : k \in 0..n}

\* the records of page p (1-based) of a source served in pages of `size`
PageOf(src, size, p) ==
    SubSeq(src, (p - 1) * size + 1, Min(p * size, Len(src)))

\* the idle state of a script that is not the one running
Off == [pc |-> "off"]

(***************************************************************************)
(* 川渝 (src/川渝/cl.py)                                                   *)
(***************************************************************************)
\* base_payload["pageSize"], scaled down from 50
CYPageSize == 2

\* post_page_robust's max_attempts
CY_MAX_ATTEMPTS == 8

\* the source: record k carries goodsId src[k] (NoId: the key is absent)
CYItem(src, k) == [goodsId |-> src[k], pos |-> k]

CYItems(src) == [k \in 1..Len(src) |-> CYItem(src, k)]

\* a line of the JSONL log: a complete record ("ok"), a record cut off by a
\* kill and not yet newline-terminated ("torn"), or a cut-off record that a
\* later append ran into ("garbage")
CYLine(it, st) == [goodsId |-> it.goodsId, pos |-> it.pos, st |-> st]

CYLines(items) == [i \in 1..Len(items) |-> CYLine(items[i], "ok")]

\* append_jsonl: open(path, "a") and one line per item. Bytes written after a
\* torn line continue that line.
CYAppendJsonl(jsonl, items) ==
    IF items = <<>> THEN jsonl
    ELSE IF jsonl # <<>> /\ Last(jsonl).st = "torn"
         THEN [jsonl EXCEPT ![Len(jsonl)].st = "garbage"] \o CYLines(Tail(items))
         ELSE jsonl \o CYLines(items)

\* append_jsonl cut by a kill after k complete lines; tear: part of line k+1
\* reached the file
CYAppendCut(jsonl, items, k, tear) ==
    LET base == CYAppendJsonl(jsonl, SubSeq(items, 1, k))
    IN  IF ~tear THEN base
        ELSE IF base # <<>> /\ Last(base).st = "torn" THEN base
        ELSE Append(base, CYLine(items[k + 1], "torn"))

\* the lines json.loads accepts, as items
CYParsed(jsonl) ==
    LET ok == SelectSeq(jsonl, LAMBDA l : l.st = "ok")
    IN  [i \in 1..Len(ok) |-> [goodsId |-> ok[i].goodsId, pos |-> ok[i].pos]]

\* the records (by position in the source) the log holds as complete lines
CYOkPos(jsonl) == {jsonl[i].pos : i \in {j \in 1..Len(jsonl) : jsonl[j].st = "ok"}}

\* main, lines 219-236: seen_goods_ids rebuilt from the JSONL log
CYLoadSeen(jsonl) ==
    {l.goodsId : l \in {jsonl[i] : i \in {j \in 1..Len(jsonl) :
                          jsonl[j].st = "ok" /\ jsonl[j].goodsId # NoId}}}

\* load_checkpoint: absent, unreadable or non-positive gives 1
CYLoadCheckpoint(ckpt) ==
    IF ckpt.st = "ok" /\ ckpt.page >= 1 THEN ckpt.page ELSE 1

\* main, lines 259-268: the dedup loop over one page; returns <<new_items, seen>>
RECURSIVE CYDedup(_, _, _)
CYDedup(items, seen, acc) ==
    IF items = <<>> THEN <<acc, seen>>
    ELSE LET it == Head(items)
         IN  IF it.goodsId = NoId
             THEN CYDedup(Tail(items), seen, Append(acc, it))
             ELSE IF it.goodsId \in seen
             THEN CYDedup(Tail(items), seen, acc)
             ELSE CYDedup(Tail(items), seen \cup {it.goodsId}, Append(acc, it))

\* a variant that names the page after the failed one
CYFailCheckpointNext(page) == page + 1

\* save_checkpoint(page) when post_page_robust gave None: the failed page
CYFailCheckpoint(page) == page

\* save_checkpoint(page + 1) after a processed page
CYNextCheckpoint(page) == page + 1

CYSources == SeqsUpTo(0..MaxId, MaxItems)

CYInit ==
    \E s \in CYSources :
        cy = [pc |-> "start", src |-> s,
              ckpt |-> [st |-> "absent", page |-> 0],
              jsonl |-> <<>>, csv |-> <<>>,
              page |-> 0, seen |-> {}, new_items |-> <<>>, target |-> 0,
              after |-> "none", runs |-> 1,
              killedInSave |-> FALSE,
              \* history of the run: pages requested, the page given up on, the
              \* seen set loaded at start, the records fetched, those admitted
              fetched |-> {}, failedAt |-> 0, seen0 |-> {}, processed |-> <<>>,
              emitted |-> <<>>,
              \* history of the log: the complete lines it ever held
              durable |-> {}]

\* main, lines 212-238: load the checkpoint and the seen set
CYStart ==
    /\ prog = "cy" /\ cy.pc = "start"
    /\ cy' = [cy EXCEPT !.pc = "loop",
                        !.page = CYLoadCheckpoint(cy.ckpt),
                        !.seen = CYLoadSeen(cy.jsonl),
                        !.seen0 = CYLoadSeen(cy.jsonl)]
    /\ UNCHANGED OthersCY

\* main, lines 240-268: one page request and its dedup. post_page_robust
\* returns None when all CY_MAX_ATTEMPTS attempts failed.
CYFetch ==
    /\ prog = "cy" /\ cy.pc = "loop"
    /\ \E fails \in 0..CY_MAX_ATTEMPTS :
        LET items == PageOf(CYItems(cy.src), CYPageSize, cy.page)
            d     == CYDedup(items, cy.seen, <<>>)
        IN  IF fails >= CY_MAX_ATTEMPTS
            THEN cy' = [cy EXCEPT !.pc = "save_open", !.after = "stop",
                                  !.target = CYFailCheckpoint(cy.page),
                                  !.fetched = @ \cup {cy.page},
                                  !.failedAt = cy.page]
            ELSE IF items = <<>>
            THEN cy' = [cy EXCEPT !.pc = "save_open", !.after = "stop",
                                  !.target = cy.page,
                                  !.fetched = @ \cup {cy.page}]
            ELSE cy' = [cy EXCEPT !.pc = IF d[1] # <<>> THEN "append" ELSE "save_open",
                                  !.after = "next",
                                  !.target = CYNextCheckpoint(cy.page),
                                  !.new_items = d[1], !.seen = d[2],
                                  !.fetched = @ \cup {cy.page},
                                  !.processed = @ \o items,
                                  !.emitted = @ \o d[1]]
    /\ UNCHANGED OthersCY

\* main, lines 270-272: append_jsonl(OUT_JSONL, new_items)
CYAppend ==
    /\ prog = "cy" /\ cy.pc = "append"
    /\ cy' = [cy EXCEPT !.pc = "save_open",
                        !.jsonl = CYAppendJsonl(cy.jsonl, cy.new_items),
                        !.durable = @ \cup CYOkPos(CYAppendJsonl(cy.jsonl, cy.new_items))]
    /\ UNCHANGED OthersCY

\* save_checkpoint, line 84: open(CHECKPOINT, "w") truncates the file
CYSaveOpen ==
    /\ prog = "cy" /\ cy.pc = "save_open"
    /\ cy' = [cy EXCEPT !.pc = "save_write", !.ckpt = [st |-> "trunc", page |-> 0]]
    /\ UNCHANGED OthersCY

\* save_checkpoint, line 85: json.dump and close; then the loop goes on
\* (page += 1) or breaks
CYSaveWrite ==
    /\ prog = "cy" /\ cy.pc = "save_write"
    /\ cy' = [cy EXCEPT !.ckpt = [st |-> "ok", page |-> cy.target],
                        !.pc = IF cy.after = "next" THEN "loop" ELSE "csv",
                        !.page = IF cy.after = "next" THEN cy.page + 1 ELSE cy.page,
                        !.new_items = <<>>]
    /\ UNCHANGED OthersCY

\* main, lines 283-296: the consolidation pass
CYWriteCsv ==
    /\ prog = "cy" /\ cy.pc = "csv"
    /\ cy' = [cy EXCEPT !.pc = "exit", !.csv = CYParsed(cy.jsonl)]
    /\ UNCHANGED OthersCY

\* what is left of the process state once the process is gone
CYGone(c, killedInSave) ==
    [c EXCEPT !.pc = "dead", !.killedInSave = killedInSave,
              !.page = 0, !.seen = {}, !.new_items = <<>>, !.target = 0,
              !.after = "none", !.fetched = {}, !.failedAt = 0, !.seen0 = {},
              !.processed = <<>>, !.emitted = <<>>]

\* the process is killed (SIGKILL, power loss): only the files survive
CYKill ==
    /\ prog = "cy" /\ cy.pc \in {"start", "loop", "append", "save_open", "save_write", "csv"}
    /\ cy' = CYGone(cy, cy.pc = "save_write")
    /\ UNCHANGED OthersCY

\* the process is killed inside append_jsonl
CYKillInAppend ==
    /\ prog = "cy" /\ cy.pc = "append"
    /\ \E k \in 0..(Len(cy.new_items) - 1), tear \in BOOLEAN :
        cy' = CYGone([cy EXCEPT !.jsonl = CYAppendCut(cy.jsonl, cy.new_items, k, tear),
                                !.durable = @ \cup CYOkPos(CYAppendCut(cy.jsonl,
                                                             cy.new_items, k, tear))],
                     FALSE)
    /\ UNCHANGED OthersCY

\* the script is started again
CYRestart ==
    /\ prog = "cy" /\ cy.pc \in {"dead", "exit"} /\ cy.runs < MaxRuns
    /\ cy' = [CYGone(cy, FALSE) EXCEPT !.pc = "start", !.runs = @ + 1]
    /\ UNCHANGED OthersCY

CYNext ==
    \/ CYStart \/ CYFetch \/ CYAppend \/ CYSaveOpen \/ CYSaveWrite
    \/ CYWriteCsv \/ CYKill \/ CYKillInAppend \/ CYRestart

(***************************************************************************)
(* 湖北 (src/湖北/cl.py): browser crawl, JSONL log, checkpoint with the     *)
(* seen keys                                                               *)
(***************************************************************************)
\* number of product cards the site shows per list page
HBPageSize == 2

\* card k of the site: detail_url src[k] (NoId: no link found), its title and
\* org stand as the pair <<k, k>>
HBCard(src, k) == [detail_url |-> src[k], title |-> k]

HBCards(src) == [k \in 1..Len(src) |-> HBCard(src, k)]

\* main, line 254: key = x.get("detail_url") or (title, org)
HBKey(x) ==
    IF x.detail_url # NoId THEN <<"url", x.detail_url>> ELSE <<"tuple", x.title>>

\* json.dump of a key: a str stays a str, a tuple becomes a JSON array
HBJsonKey(k) == IF k[1] = "tuple" THEN <<"list", k[2]>> ELSE k

\* number of list pages of the site
HBNumPages(src) == (Len(src) + HBPageSize - 1) \div HBPageSize

\* save_checkpoint: {"page_index": .., "seen_keys": list(seen_keys)}
HBCheckpoint(page_index, seen) ==
    [st |-> "ok", page_index |-> page_index,
     seen_keys |-> {HBJsonKey(k) : k \in seen}]

\* main, line 214: set(ck.get("seen_keys", [])) raises TypeError on a JSON
\* array (a list is unhashable)
HBLoadable(ckpt) ==
    /\ ckpt.st # "trunc"
    /\ ckpt.st = "ok" => \A k \in ckpt.seen_keys : k[1] # "list"

\* main, lines 280-288: first occurrence of every key
RECURSIVE HBFinalDedup(_, _, _)
HBFinalDedup(rows, final_seen, acc) ==
    IF rows = <<>> THEN acc
    ELSE LET x == Head(rows)
         IN  IF HBKey(x) \in final_seen
             THEN HBFinalDedup(Tail(rows), final_seen, acc)
             ELSE HBFinalDedup(Tail(rows), final_seen \cup {HBKey(x)}, Append(acc, x))

\* main, line 264: the checkpoint written after a page
HBNextCheckpoint(page_index) == page_index + 1

HBInit ==
    \E s \in SeqsUpTo(0..MaxId, MaxItems) :
        hb = [pc |-> "start", src |-> s,
              ckpt |-> [st |-> "absent", page_index |-> 0, seen_keys |-> {}],
              jl |-> <<>>, out |-> <<>>,
              page_index |-> 0, cur |-> 0, seen |-> {}, idx |-> 0, runs |-> 1]

\* main, lines 212-231: load_checkpoint (json.load raises on a cut file) and
\* open the start page
HBStart ==
    /\ prog = "hb" /\ hb.pc = "start"
    /\ IF ~HBLoadable(hb.ckpt)
       THEN hb' = [hb EXCEPT !.pc = "crashed"]
       ELSE hb' = [hb EXCEPT !.pc = "forward", !.cur = 1,
                     !.page_index = IF hb.ckpt.st = "ok" THEN hb.ckpt.page_index ELSE 1,
                     !.seen = IF hb.ckpt.st = "ok" THEN hb.ckpt.seen_keys ELSE {}]
    /\ UNCHANGED OthersHB

\* goto_next_page: False when the next button is absent or disabled, or when
\* the click did not change the list within the retries
HBCanGoNext(h) == h.cur < HBNumPages(h.src)

\* main, lines 235-244: click next until the checkpoint page is reached
HBFastForward ==
    /\ prog = "hb" /\ hb.pc = "forward"
    /\ IF hb.cur >= hb.page_index
       THEN hb' = [hb EXCEPT !.pc = "extract"]
       ELSE \E ok \in {b \in BOOLEAN : b => HBCanGoNext(hb)} :
              hb' = IF ok THEN [hb EXCEPT !.cur = @ + 1]
                          ELSE [hb EXCEPT !.pc = "exit"]
    /\ UNCHANGED OthersHB

\* extract_products_on_page: wait_for_selector raises when no card shows up
HBExtract ==
    /\ prog = "hb" /\ hb.pc = "extract"
    /\ hb' = IF PageOf(HBCards(hb.src), HBPageSize, hb.cur) = <<>>
             THEN [hb EXCEPT !.pc = "crashed"]
             ELSE [hb EXCEPT !.pc = "items", !.idx = 1]
    /\ UNCHANGED OthersHB

\* main, lines 253-259: one card of the page: dedup, then append_jsonl(x)
HBItem ==
    /\ prog = "hb" /\ hb.pc = "items"
    /\ LET items == PageOf(HBCards(hb.src), HBPageSize, hb.cur)
       IN  IF hb.idx > Len(items)
           THEN hb' = [hb EXCEPT !.pc = "save_open"]
           ELSE LET x == items[hb.idx]
                IN  IF HBKey(x) \in hb.seen
                    THEN hb' = [hb EXCEPT !.idx = @ + 1]
                    ELSE hb' = [hb EXCEPT !.idx = @ + 1,
                                          !.seen = @ \cup {HBKey(x)},
                                          !.jl = Append(@, x)]
    /\ UNCHANGED OthersHB

\* save_checkpoint, line 49: open(CHECKPOINT, "w") truncates the file
HBSaveOpen ==
    /\ prog = "hb" /\ hb.pc = "save_open"
    /\ hb' = [hb EXCEPT !.pc = "save_write",
                        !.ckpt = [st |-> "trunc", page_index |-> 0, seen_keys |-> {}]]
    /\ UNCHANGED OthersHB

\* save_checkpoint, line 50: json.dump and close
HBSaveWrite ==
    /\ prog = "hb" /\ hb.pc = "save_write"
    /\ hb' = [hb EXCEPT !.pc = "next",
                        !.ckpt = HBCheckpoint(HBNextCheckpoint(hb.page_index), hb.seen)]
    /\ UNCHANGED OthersHB

\* main, lines 266-269
HBGotoNext ==
    /\ prog = "hb" /\ hb.pc = "next"
    /\ \E ok \in {b \in BOOLEAN : b => HBCanGoNext(hb)} :
         hb' = IF ok THEN [hb EXCEPT !.pc = "extract", !.cur = @ + 1, !.page_index = @ + 1]
                     ELSE [hb EXCEPT !.pc = "consolidate"]
    /\ UNCHANGED OthersHB

\* main, lines 271-297: jsonl -> final dedup -> products.json / products.csv
HBConsolidate ==
    /\ prog = "hb" /\ hb.pc = "consolidate"
    /\ hb' = [hb EXCEPT !.pc = "exit", !.out = HBFinalDedup(hb.jl, {}, <<>>)]
    /\ UNCHANGED OthersHB

\* the process is killed: only the files survive
HBKill ==
    /\ prog = "hb"
    /\ hb.pc \in {"start", "forward", "extract", "items", "save_open", "save_write",
                  "next", "consolidate"}
    /\ hb' = [hb EXCEPT !.pc = "dead", !.page_index = 0, !.cur = 0, !.seen = {}, !.idx = 0]
    /\ UNCHANGED OthersHB

\* the script is started again
HBRestart ==
    /\ prog = "hb" /\ hb.pc \in {"dead", "exit", "crashed"} /\ hb.runs < MaxRuns
    /\ hb' = [hb EXCEPT !.pc = "start", !.runs = @ + 1, !.page_index = 0, !.cur = 0,
                        !.seen = {}, !.idx = 0]
    /\ UNCHANGED OthersHB

HBNext ==
    \/ HBStart \/ HBFastForward \/ HBExtract \/ HBItem \/ HBSaveOpen \/ HBSaveWrite
    \/ HBGotoNext \/ HBConsolidate \/ HBKill \/ HBRestart

(***************************************************************************)
(* 合肥中心 (src/安徽/合肥中心.py): scrape_all / iter_records, CSV written  *)
(* through a buffered file, progress file replaced atomically              *)
(***************************************************************************)
\* number of pages of the source that hold records, at most
HFMaxPages == 2
\* records on one page, at most (page_size, scaled down from 8)
HFMaxRecs == 1
\* number of process starts (first run plus restarts) of one crawl
HFMaxRuns == 2
\* scrape_all, line 308: flush after every 50 rows
HF_FLUSH_EVERY == 50
\* iter_records, line 208: range(1, 4)
HF_ATTEMPTS == 3

\* what one fetch_page call can meet: an HTTP 200 JSON body with
\* success = True, or one of the failures it raises on
HFFailures == {"network", "http_status", "non_json", "success_false", "no_success"}

\* fetch_page, lines 129-144: the failures all raise RuntimeError (or the
\* requests exception); only a success = True body is returned
HFFetchRaises(resp) == resp \in HFFailures

\* row i of page p, after flatten_record
HFRow(p, i) == <<p, i>>

\* the CSV header line
HFHeader == <<0, 0>>

\* number of records the source serves on page p: nothing past its end
HFRecords(src, p) == IF p \in 1..Len(src) THEN src[p] ELSE 0

\* load_progress: absent or unreadable gives 1
HFLoadProgress(progress) ==
    IF progress.st = "ok" /\ progress.next_page_no >= 1 THEN progress.next_page_no ELSE 1

\* scrape_all, lines 273-277: append to a non-empty file, else (re)create it
HFMode(csv) == IF csv # <<>> THEN "a" ELSE "w"

\* iter_records, line 242: the progress written after a page
HFNextPage(page_no) == page_no + 1

\* a variant that stops on the first empty page
HFEmptyStopAtFirst(seen_empty) == seen_empty >= 1

\* iter_records, lines 230-234: the empty-page stop
HFEmptyStop(seen_empty) == seen_empty >= 2

\* iter_records, lines 245-247: the stop on the pages field (0: absent, None
\* or not positive)
HFPagesStop(pages, page_no) == pages > 0 /\ page_no >= pages

\* the data rows of a CSV file or buffer
HFDataRows(lines) == {lines[i] : i \in 1..Len(lines)} \ {HFHeader}

HFInit ==
    \E s \in SeqsUpTo(0..HFMaxRecs, HFMaxPages), pg \in 0..HFMaxPages :
        hf = [pc |-> "start", src |-> s, pages |-> pg, max_pages |-> 0,
              progress |-> [st |-> "absent", next_page_no |-> 0],
              tmp |-> [st |-> "absent", next_page_no |-> 0],
              csv |-> <<>>, buf |-> <<>>, mode |-> "none", writer |-> FALSE,
              start_page |-> 0, page_no |-> 0, seen_empty |-> 0, attempt |-> 0,
              idx |-> 0, total_rows |-> 0, last_err |-> "none", outcome |-> "none",
              runs |-> 1,
              \* history of the run: rows yielded, record counts of the pages
              \* fetched, pages requested, the page given up on
              emitted |-> {}, trace |-> <<>>, fetched |-> {}, failedAt |-> 0,
              \* history of the crawl: rows that ever reached the disk; whether
              \* every kill so far came right after a progress save
              durable |-> {}, cleanKills |-> TRUE]

\* scrape_all, lines 263-279 (resume = True, as __main__ calls it)
HFStart ==
    /\ prog = "hf" /\ hf.pc = "start"
    /\ hf' = [hf EXCEPT !.pc = "top",
                        !.start_page = HFLoadProgress(hf.progress),
                        !.page_no = HFLoadProgress(hf.progress),
                        !.mode = HFMode(hf.csv),
                        !.csv = IF HFMode(hf.csv) = "w" THEN <<>> ELSE @]
    /\ UNCHANGED OthersHF

\* iter_records, lines 201-203: the max_pages limit (0: None)
HFTop ==
    /\ prog = "hf" /\ hf.pc = "top"
    /\ hf' = IF hf.max_pages # 0 /\ (hf.page_no - hf.start_page + 1) > hf.max_pages
             THEN [hf EXCEPT !.pc = "closing", !.outcome = "done"]
             ELSE [hf EXCEPT !.pc = "fetch", !.attempt = 1, !.last_err = "none"]
    /\ UNCHANGED OthersHF

\* iter_records, lines 207-219: one attempt of the application-level retry.
\* last_err is read only by the raise after the last attempt, so the model
\* keeps the error of that attempt alone.
HFAttempt ==
    /\ prog = "hf" /\ hf.pc = "fetch"
    /\ \E resp \in HFFailures \cup {"ok"} :
         IF HFFetchRaises(resp)
         THEN IF hf.attempt >= HF_ATTEMPTS
              THEN hf' = [hf EXCEPT !.pc = "closing", !.outcome = "raised",
                                    !.last_err = resp, !.failedAt = hf.page_no,
                                    !.fetched = @ \cup {hf.page_no}]
              ELSE hf' = [hf EXCEPT !.attempt = @ + 1, !.fetched = @ \cup {hf.page_no}]
         ELSE hf' = [hf EXCEPT !.pc = "page", !.last_err = "none",
                               !.fetched = @ \cup {hf.page_no},
                               !.trace = Append(@, HFRecords(hf.src, hf.page_no))]
    /\ UNCHANGED OthersHF

\* iter_records, lines 221-236: empty page or not
HFPage ==
    /\ prog = "hf" /\ hf.pc = "page"
    /\ hf' = IF HFRecords(hf.src, hf.page_no) = 0
             THEN IF HFEmptyStop(hf.seen_empty + 1)
                  THEN [hf EXCEPT !.seen_empty = @ + 1, !.pc = "closing", !.outcome = "done"]
                  ELSE [hf EXCEPT !.seen_empty = @ + 1, !.pc = "save_tmp"]
             ELSE [hf EXCEPT !.seen_empty = 0, !.pc = "rows", !.idx = 1]
    /\ UNCHANGED OthersHF

\* iter_records, lines 237-239, and the body of scrape_all's for loop, lines
\* 289-310: one row is yielded and written to the buffered file
HFYieldRow ==
    /\ prog = "hf" /\ hf.pc = "rows"
    /\ IF hf.idx > HFRecords(hf.src, hf.page_no)
       THEN hf' = [hf EXCEPT !.pc = "save_tmp"]
       ELSE LET row   == HFRow(hf.page_no, hf.idx)
                head  == IF ~hf.writer /\ hf.mode = "w" THEN <<HFHeader>> ELSE <<>>
                buf2  == hf.buf \o head \o <<row>>
                n     == hf.total_rows + 1
                flush == n % HF_FLUSH_EVERY = 0
            IN  hf' = [hf EXCEPT !.idx = @ + 1, !.writer = TRUE, !.total_rows = n,
                                 !.emitted = @ \cup {row},
                                 !.buf = IF flush THEN <<>> ELSE buf2,
                                 !.csv = IF flush THEN @ \o buf2 ELSE @,
                                 !.durable = IF flush THEN @ \cup HFDataRows(hf.csv \o buf2)
                                             ELSE @]
    /\ UNCHANGED OthersHF

\* the file object's buffer writes its oldest bytes out when it fills up
HFSpill ==
    /\ prog = "hf" /\ hf.pc \in {"top", "fetch", "page", "rows", "save_tmp",
                                 "save_replace", "pages_check", "closing"}
    /\ hf.buf # <<>>
    /\ hf' = [hf EXCEPT !.buf = Tail(@), !.csv = Append(@, Head(hf.buf)),
                        !.durable = @ \cup HFDataRows(<<Head(hf.buf)>>)]
    /\ UNCHANGED OthersHF

\* save_progress, lines 179-181: the new progress goes to path + ".tmp"
HFSaveTmp ==
    /\ prog = "hf" /\ hf.pc = "save_tmp"
    /\ hf' = [hf EXCEPT !.pc = "save_replace",
                        !.tmp = [st |-> "ok", next_page_no |-> HFNextPage(hf.page_no)]]
    /\ UNCHANGED OthersHF

\* save_progress, line 182: os.replace(tmp, path)
HFSaveReplace ==
    /\ prog = "hf" /\ hf.pc = "save_replace"
    /\ hf' = [hf EXCEPT !.pc = "pages_check", !.progress = hf.tmp,
                        !.tmp = [st |-> "absent", next_page_no |-> 0]]
    /\ UNCHANGED OthersHF

\* iter_records, lines 244-252
HFPagesCheck ==
    /\ prog = "hf" /\ hf.pc = "pages_check"
    /\ hf' = IF HFPagesStop(hf.pages, hf.page_no)
             THEN [hf EXCEPT !.pc = "closing", !.outcome = "done"]
             ELSE [hf EXCEPT !.pc = "top", !.page_no = @ + 1]
    /\ UNCHANGED OthersHF

\* scrape_all: leaving the with block (generator exhausted, or an exception
\* on its way out) closes the file and so flushes it; lines 312-316
HFClose ==
    /\ prog = "hf" /\ hf.pc = "closing"
    /\ hf' = [hf EXCEPT !.csv = @ \o hf.buf, !.buf = <<>>,
                        !.durable = @ \cup HFDataRows(hf.csv \o hf.buf),
                        !.pc = IF hf.outcome = "raised" THEN "failed"
                               ELSE IF hf.total_rows = 0 THEN "no_data" ELSE "done"]
    /\ UNCHANGED OthersHF

\* the process is killed: what is still in the file object's buffer is lost
HFKill ==
    /\ prog = "hf" /\ hf.pc \in {"start", "top", "fetch", "page", "rows", "save_tmp",
                                 "save_replace", "pages_check", "closing"}
    /\ hf' = [hf EXCEPT !.pc = "dead", !.buf = <<>>,
                        !.cleanKills = @ /\ hf.pc = "pages_check",
                        !.mode = "none", !.writer = FALSE,
                        !.start_page = 0, !.page_no = 0, !.seen_empty = 0, !.attempt = 0,
                        !.idx = 0, !.total_rows = 0, !.last_err = "none",
                        !.outcome = "none", !.emitted = {}, !.trace = <<>>,
                        !.fetched = {}, !.failedAt = 0]
    /\ UNCHANGED OthersHF

\* the script is started again
HFRestart ==
    /\ prog = "hf" /\ hf.pc \in {"dead", "done", "failed", "no_data"} /\ hf.runs < HFMaxRuns
    /\ hf' = [hf EXCEPT !.pc = "start", !.runs = @ + 1, !.mode = "none", !.writer = FALSE,
                        !.start_page = 0, !.page_no = 0, !.seen_empty = 0, !.attempt = 0,
                        !.idx = 0, !.total_rows = 0, !.last_err = "none",
                        !.outcome = "none", !.emitted = {}, !.trace = <<>>,
                        !.fetched = {}, !.failedAt = 0]
    /\ UNCHANGED OthersHF

HFNext ==
    \/ HFStart \/ HFTop \/ HFAttempt \/ HFPage \/ HFYieldRow \/ HFSpill \/ HFSaveTmp
    \/ HFSaveReplace \/ HFPagesCheck \/ HFClose \/ HFKill \/ HFRestart

(***************************************************************************)
(* 河北 (src/河北/cl1.py): the list loop of main                            *)
(***************************************************************************)
\* page_size of main, scaled down from 100
HEBPageSize == 2

\* what the list endpoint can answer: a page of records; an HTTP 200 JSON body
\* that declares a failure and carries no data; a non-2xx status; a body that
\* is not JSON
HEBResponses == {"ok", "business_failure", "http_error", "non_json"}

\* safe_json, lines 33-38: raise_for_status, then resp.json()
HEBSafeJsonRaises(resp) == resp \in {"http_error", "non_json"}

\* main, lines 95-96: records = (js.get("data") or {}).get("records") or []
HEBRecords(resp, src, page_index) ==
    IF resp = "ok" THEN PageOf(src, HEBPageSize, page_index) ELSE <<>>

HEBInit ==
    \E s \in SeqsUpTo(1..MaxId, MaxItems) :
        heb = [pc |-> "list", src |-> s, page_index |-> 1, list_records |-> <<>>,
               \* history: the answer to the last request
               lastResp |-> "none"]

\* main, lines 93-108: one turn of the list loop
HEBListPage ==
    /\ prog = "heb" /\ heb.pc = "list"
    /\ \E resp \in HEBResponses :
         IF HEBSafeJsonRaises(resp)
         THEN heb' = [heb EXCEPT !.pc = "raised", !.lastResp = resp]
         ELSE LET records == HEBRecords(resp, heb.src, heb.page_index)
              IN  IF records = <<>>
                  THEN heb' = [heb EXCEPT !.lastResp = resp,
                                  !.pc = IF heb.list_records = <<>> THEN "list_empty"
                                         ELSE "list_done"]
                  ELSE heb' = [heb EXCEPT !.lastResp = resp,
                                  !.list_records = @ \o records,
                                  !.page_index = @ + 1]
    /\ UNCHANGED OthersHEB

HEBNext == HEBListPage

(***************************************************************************)
(* 内蒙古 (src/内蒙古/cl.py): crawl_all                                     *)
(***************************************************************************)
\* page_size of crawl_all, scaled down from 100
NMPageSize == 2
\* app_scene_types = range(1, 13), scaled down to 1..NMTypes
NMTypes == 2
\* max_pages_safety
NM_MAX_PAGES_SAFETY == 10000

\* a record: productInfo.productId and productDetail.productId (NoId: absent
\* or falsy), pos tells the records of the source apart
NMRecs == {[info |-> a, detail |-> 0] : a \in 0..MaxId}
              \cup {[info |-> 0, detail |-> b] : b \in 1..MaxId}

\* crawl_all, line 90: pid = flat.get("productInfo_productId") or
\* flat.get("productDetail_productId")
NMPid(rec) == IF rec.info # NoId THEN rec.info ELSE rec.detail

\* a variant of consume that never records an id as seen
RECURSIVE NMConsumeNoAdd(_, _, _)
NMConsumeNoAdd(recs, rows, seen_ids) ==
    IF recs = <<>> THEN <<rows, seen_ids>>
    ELSE LET flat == Head(recs)
             pid  == NMPid(flat)
         IN  IF pid # NoId /\ pid \in seen_ids
             THEN NMConsumeNoAdd(Tail(recs), rows, seen_ids)
             ELSE NMConsumeNoAdd(Tail(recs), Append(rows, flat), seen_ids)

\* crawl_all, lines 86-96: consume(recs); returns <<rows, seen_ids>>
RECURSIVE NMConsume(_, _, _)
NMConsume(recs, rows, seen_ids) ==
    IF recs = <<>> THEN <<rows, seen_ids>>
    ELSE LET flat == Head(recs)
             pid  == NMPid(flat)
         IN  IF pid # NoId /\ pid \in seen_ids
             THEN NMConsume(Tail(recs), rows, seen_ids)
             ELSE NMConsume(Tail(recs), Append(rows, flat),
                            IF pid # NoId THEN seen_ids \cup {pid} ELSE seen_ids)

\* crawl_all, line 82: math.ceil(count / page_size)
NMTotalPages(count, page_size) == (count + page_size - 1) \div page_size

\* the records of scene type t: the source is cut at `cut` between the types
NMOfType(n, t) ==
    LET all == [k \in 1..Len(n.src) |->
                  [info |-> n.src[k].info, detail |-> n.src[k].detail, pos |-> k]]
    IN  IF t = 1 THEN SubSeq(all, 1, n.cut)
        ELSE IF t = 2 THEN SubSeq(all, n.cut + 1, Len(all))
        ELSE <<>>

NMInit ==
    \E s \in SeqsUpTo(NMRecs, MaxItems) :
      \E c \in 0..Len(s) :
        nm = [pc |-> "first", src |-> s, cut |-> c, t |-> 1, page |-> 1,
              total_pages |-> 0, rows |-> <<>>, seen_ids |-> {},
              \* history: the records consumed so far
              processed |-> <<>>]

\* crawl_all, lines 76-98: page 1 of a scene type gives the count
NMFirstPage ==
    /\ prog = "nm" /\ nm.pc = "first"
    /\ IF nm.t > NMTypes
       THEN nm' = [nm EXCEPT !.pc = "done"]
       ELSE \E ok \in BOOLEAN :
              IF ~ok THEN nm' = [nm EXCEPT !.pc = "raised"]
              ELSE LET recs == PageOf(NMOfType(nm, nm.t), NMPageSize, 1)
                       c    == NMConsume(recs, nm.rows, nm.seen_ids)
                   IN  nm' = [nm EXCEPT !.pc = "more", !.page = 2,
                                 !.total_pages = NMTotalPages(Len(NMOfType(nm, nm.t)),
                                                              NMPageSize),
                                 !.rows = c[1], !.seen_ids = c[2],
                                 !.processed = @ \o recs]
    /\ UNCHANGED OthersNM

\* crawl_all, lines 101-107: pages 2..min(total_pages, max_pages_safety)
NMNextPage ==
    /\ prog = "nm" /\ nm.pc = "more"
    /\ IF nm.page > Min(nm.total_pages, NM_MAX_PAGES_SAFETY)
       THEN nm' = [nm EXCEPT !.pc = "first", !.t = @ + 1]
       ELSE \E ok \in BOOLEAN :
              IF ~ok THEN nm' = [nm EXCEPT !.pc = "raised"]
              ELSE LET recs == PageOf(NMOfType(nm, nm.t), NMPageSize, nm.page)
                       c    == NMConsume(recs, nm.rows, nm.seen_ids)
                   IN  nm' = [nm EXCEPT !.page = @ + 1, !.rows = c[1],
                                 !.seen_ids = c[2], !.processed = @ \o recs]
    /\ UNCHANGED OthersNM

NMNext == NMFirstPage \/ NMNextPage

(***************************************************************************)
(* 湖南 (src/湖南/cl.py): main                                              *)
(***************************************************************************)
\* page_size of main, scaled down from 12
HNPageSize == 2
\* main(start_page=1, end_page=10, ...)
HN_START_PAGE == 1
HN_END_PAGE == 10

\* a raw id of a list record: 0 the key is absent or "", n > 0 the number n,
\* n < 0 the text of -n with blanks around it
HNRawIds == (0 - MaxId)..MaxId

\* main, line 129: pid = str(item.get("id", "")).strip()
HNPid(raw) == IF raw < 0 THEN 0 - raw ELSE raw

HNItems(src) == [k \in 1..Len(src) |-> [id |-> src[k], pos |-> k]]

HNInit ==
    \E s \in SeqsUpTo(HNRawIds, MaxItems) :
        hn = [pc |-> "list", src |-> s, page |-> HN_START_PAGE, idx |-> 0,
              seen_ids |-> {}, out_rows |-> <<>>,
              \* history: the records the dedup check has looked at, and those
              \* it let through
              processed |-> <<>>, admitted |-> <<>>]

\* main, lines 121-126: the next list page
HNListPage ==
    /\ prog = "hn" /\ hn.pc = "list"
    /\ IF hn.page > HN_END_PAGE
       THEN hn' = [hn EXCEPT !.pc = "export"]
       ELSE \E ok \in BOOLEAN :
              IF ~ok THEN hn' = [hn EXCEPT !.pc = "raised"]
              ELSE IF PageOf(HNItems(hn.src), HNPageSize, hn.page) = <<>>
              THEN hn' = [hn EXCEPT !.pc = "export"]
              ELSE hn' = [hn EXCEPT !.pc = "items", !.idx = 1]
    /\ UNCHANGED OthersHN

\* main, lines 128-149: one record: dedup, detail call, merge
HNItem ==
    /\ prog = "hn" /\ hn.pc = "items"
    /\ LET records == PageOf(HNItems(hn.src), HNPageSize, hn.page)
       IN  IF hn.idx > Len(records)
           THEN hn' = [hn EXCEPT !.pc = "list", !.page = @ + 1]
           ELSE LET item == records[hn.idx]
                    pid  == HNPid(item.id)
                IN  IF pid = 0 \/ pid \in hn.seen_ids
                    THEN hn' = [hn EXCEPT !.idx = @ + 1,
                                          !.processed = Append(@, item)]
                    ELSE \E detail_ok \in BOOLEAN :
                           hn' = [hn EXCEPT !.idx = @ + 1,
                                     !.processed = Append(@, item),
                                     !.seen_ids = @ \cup {pid},
                                     !.admitted = Append(@, item),
                                     !.out_rows = IF detail_ok THEN Append(@, item)
                                                  ELSE @]
    /\ UNCHANGED OthersHN

\* main, line 151: export_csv(out_rows, out_csv)
HNExport ==
    /\ prog = "hn" /\ hn.pc = "export"
    /\ hn' = [hn EXCEPT !.pc = "done"]
    /\ UNCHANGED OthersHN

HNNext == HNListPage \/ HNItem \/ HNExport

(***************************************************************************)
(* The page loops of 北京, 河南 and 山东. The source holds T records and     *)
(* serves them in pages of the requested size; T and the size are inputs.  *)
(***************************************************************************)
\* records the source holds, at most
MaxTotal == 5
\* requested page size, at most
MaxPageSize == 3

Max(a, b) == IF a > b THEN a ELSE b

\* ceil(a / b)
CeilDiv(a, b) == (a + b - 1) \div b

\* number of records on page p of a source of T records, pages of size S
PageCount(T, S, p) == Min(S, Max(0, T - (p - 1) * S))

(* ------------------------------------------------- 北京 (src/北京/cl.py) *)
\* crawl_all's default max_pages
BJ_MAX_PAGES == 10000

\* a variant that also stops on a full page
BJShortPageOrFull(n, page_size) == n <= page_size

\* crawl_all, line 71: the short-page stop
BJShortPage(n, page_size) == n < page_size

BJInit ==
    \E T \in 0..MaxTotal, S \in 1..MaxPageSize :
        bj = [pc |-> "loop", T |-> T, page_size |-> S, page_num |-> 1, all_rows |-> 0,
              \* history: requests made, records on the last page fetched
              requests |-> 0, lastN |-> 0]

\* crawl_all, lines 63-75: one turn of the loop; fetch_page raises on an HTTP
\* error and on code != 200
BJPage ==
    /\ prog = "bj" /\ bj.pc = "loop"
    /\ IF bj.page_num > BJ_MAX_PAGES
       THEN bj' = [bj EXCEPT !.pc = "done"]
       ELSE \E ok \in BOOLEAN :
              LET n == PageCount(bj.T, bj.page_size, bj.page_num)
              IN  IF ~ok
                  THEN bj' = [bj EXCEPT !.pc = "raised", !.requests = @ + 1]
                  ELSE IF n = 0
                  THEN bj' = [bj EXCEPT !.pc = "done", !.requests = @ + 1, !.lastN = n]
                  ELSE IF BJShortPage(n, bj.page_size)
                  THEN bj' = [bj EXCEPT !.pc = "done", !.requests = @ + 1, !.lastN = n,
                                        !.all_rows = @ + n]
                  ELSE bj' = [bj EXCEPT !.requests = @ + 1, !.lastN = n,
                                        !.all_rows = @ + n, !.page_num = @ + 1]
    /\ UNCHANGED OthersBJ

BJNext == BJPage

(* ------------------------------------------------- 河南 (src/河南/cl.py) *)
\* crawl_all, line 128: the short-page stop
HAShortPage(n, page_size) == n < page_size

HAInit ==
    \E T \in 0..MaxTotal, S \in 1..MaxPageSize :
        ha = [pc |-> "loop", T |-> T, page_size |-> S, page |-> 1, all_rows |-> 0,
              requests |-> 0, lastN |-> 0]

\* crawl_all, lines 110-133: one turn of the loop; request_page raises after
\* its retries, a body with code != 0 raises
HAPage ==
    /\ prog = "ha" /\ ha.pc = "loop"
    /\ \E resp \in {"ok", "request_failed", "code_not_0"} :
         LET n == PageCount(ha.T, ha.page_size, ha.page)
         IN  IF resp # "ok"
             THEN ha' = [ha EXCEPT !.pc = "raised", !.requests = @ + 1]
             ELSE IF n = 0
             THEN ha' = [ha EXCEPT !.pc = "done", !.requests = @ + 1, !.lastN = n]
             ELSE IF HAShortPage(n, ha.page_size)
             THEN ha' = [ha EXCEPT !.pc = "done", !.requests = @ + 1, !.lastN = n,
                                   !.all_rows = @ + n]
             ELSE ha' = [ha EXCEPT !.requests = @ + 1, !.lastN = n,
                                   !.all_rows = @ + n, !.page = @ + 1]
    /\ UNCHANGED OthersHA

\* crawl_all, line 135: save_csv(output_csv, all_rows)
HASave ==
    /\ prog = "ha" /\ ha.pc = "done"
    /\ ha' = [ha EXCEPT !.pc = "saved"]
    /\ UNCHANGED OthersHA

HANext == HAPage \/ HASave

(* ------------------------------------------------- 山东 (src/山东/cl.py) *)
\* a field that is absent, None or not an int
Absent == -1

\* total_pages = None
SDNone == 0

\* the pagination fields of a payload, at top level or under "data"
SDFields(pages, totalPages, pageCount, total, totalCount, records, recordCount) ==
    [pages |-> pages, totalPages |-> totalPages, pageCount |-> pageCount,
     total |-> total, totalCount |-> totalCount, records |-> records,
     recordCount |-> recordCount]

SDNoFields == SDFields(Absent, Absent, Absent, Absent, Absent, Absent, Absent)

\* the first of the values that is an int > 0, else SDNone
SDFirstPositive(vals) ==
    LET hits == {i \in 1..Len(vals) : vals[i] > 0}
    IN  IF hits = {} THEN SDNone
        ELSE vals[CHOOSE i \in hits : \A j \in hits : i <= j]

SDPagesOf(f) == <<f.pages, f.totalPages, f.pageCount>>

SDTotalsOf(f) == {v \in {f.total, f.totalCount, f.records, f.recordCount} : v >= 0}

SetMax(S) == CHOOSE x \in S : \A y \in S : y <= x

\* a variant that looks under "data" before the top level
SDDetectTotalPagesDataFirst(payload, size) ==
    IF SDFirstPositive(SDPagesOf(payload.data)) # SDNone
    THEN SDFirstPositive(SDPagesOf(payload.data))
    ELSE IF SDFirstPositive(SDPagesOf(payload.top)) # SDNone
    THEN SDFirstPositive(SDPagesOf(payload.top))
    ELSE LET candidates == SDTotalsOf(payload.data) \cup SDTotalsOf(payload.top)
         IN  IF candidates # {}
             THEN Max(1, CeilDiv(SetMax(candidates), size))
             ELSE SDNone

\* _detect_total_pages(payload, size), lines 80-116. payload.data is
\* SDNoFields when "data" is not a dict.
SDDetectTotalPages(payload, size) ==
    IF SDFirstPositive(SDPagesOf(payload.top)) # SDNone
    THEN SDFirstPositive(SDPagesOf(payload.top))
    ELSE IF SDFirstPositive(SDPagesOf(payload.data)) # SDNone
    THEN SDFirstPositive(SDPagesOf(payload.data))
    ELSE LET candidates == SDTotalsOf(payload.data) \cup SDTotalsOf(payload.top)
         IN  IF candidates # {}
             THEN Max(1, CeilDiv(SetMax(candidates), size))
             ELSE SDNone

\* the payloads the crawl meets: no pagination field, a top-level pages, or a
\* total under data
SDCrawlPayloads ==
    {[top |-> SDNoFields, data |-> SDNoFields]}
    \cup {[top |-> [SDNoFields EXCEPT !.pages = k], data |-> SDNoFields] :
             k \in 0..MaxPageSize}
    \cup {[top |-> SDNoFields, data |-> [SDNoFields EXCEPT !.total = n]] :
             n \in 0..MaxTotal}

\* crawl_one_platsource, line 153: a known total-pages value is reached
SDTotalReached(total_pages, page) == total_pages # SDNone /\ page >= total_pages

\* a variant that also stops on a full page
SDShortPageOrFull(n, size) == n <= size

\* crawl_one_platsource, line 157: the short-page stop
SDShortPage(n, size) == n < size

SDInit ==
    \E T \in 0..MaxTotal, S \in 1..MaxPageSize :
        sd = [pc |-> "loop", T |-> T, size |-> S, page |-> 1, total_pages |-> SDNone,
              all_items |-> 0,
              \* history: requests made, the last page fetched and its records
              requests |-> 0, lastN |-> 0, lastPage |-> 0]

\* crawl_one_platsource, lines 126-161: one turn of the loop; _request_json
\* raises after MAX_RETRIES failures, a status other than 200/None raises
SDPage ==
    /\ prog = "sd" /\ sd.pc = "loop"
    /\ \E resp \in {"ok", "request_failed", "bad_status"}, payload \in SDCrawlPayloads :
         LET n  == PageCount(sd.T, sd.size, sd.page)
             tp == IF sd.total_pages = SDNone
                   THEN SDDetectTotalPages(payload, sd.size) ELSE sd.total_pages
             got == [sd EXCEPT !.requests = @ + 1, !.lastN = n, !.lastPage = sd.page,
                               !.total_pages = tp]
         IN  IF resp # "ok"
             THEN sd' = [sd EXCEPT !.pc = "raised", !.requests = @ + 1]
             ELSE IF n = 0
             THEN sd' = [got EXCEPT !.pc = "done"]
             ELSE IF SDTotalReached(tp, sd.page)
             THEN sd' = [got EXCEPT !.pc = "done", !.all_items = @ + n]
             ELSE IF SDShortPage(n, sd.size)
             THEN sd' = [got EXCEPT !.pc = "done", !.all_items = @ + n]
             ELSE sd' = [got EXCEPT !.all_items = @ + n, !.page = @ + 1]
    /\ UNCHANGED OthersSD

SDNext == SDPage

(***************************************************************************)
(* One call of a fetch function that retries: 川渝 post_page_robust, 天津   *)
(* post_with_retry, 山东 _request_json, 河南 request_page. Every attempt    *)
(* meets one outcome of the server, freely chosen.                         *)
(***************************************************************************)
\* post_with_retry's max_retries (src/天津/cl.py)
TJ_MAX_RETRIES == 5
\* MAX_RETRIES (src/山东/cl.py)
SD_MAX_RETRIES == 4
\* request_page's retries (src/河南/cl.py)
HA_RETRIES == 5

\* what one attempt can meet: a 2xx JSON body with the success code; HTTP
\* 401/403; HTTP 429; another non-2xx status; a 2xx body that is not JSON; a
\* JSON content type with a body that does not parse; a JSON body with a
\* failure code; a timeout or connection error; any other exception
RQOutcomes == {"ok", "http_401_403", "http_429", "http_other", "non_json_2xx",
               "json_error", "bad_code", "network", "unknown"}

RQFunctions == {"post_page_robust", "post_with_retry", "_request_json", "request_page"}

\* post_page_robust, lines 115-181: every branch but the last `return data`
\* ends in `continue`
CYPostFails(outcome) == outcome # "ok"

\* post_with_retry, lines 58-63; _request_json, lines 47-50; request_page,
\* lines 52-57: raise_for_status and .json() raise, a parsed body is returned
\* whatever it says
RQJsonFails(outcome) == outcome \notin {"ok", "bad_code"}

\* the for loop of a retry function is used up (variant: it never is)
RQExhaustedNever(attempt, max) == FALSE

\* range(1, max + 1) is used up after the attempt numbered max
RQExhausted(attempt, max) == attempt >= max

\* the number of attempts of each function
RQMax(fn) == IF fn = "post_page_robust" THEN CY_MAX_ATTEMPTS
             ELSE IF fn = "post_with_retry" THEN TJ_MAX_RETRIES
             ELSE IF fn = "_request_json" THEN SD_MAX_RETRIES
             ELSE HA_RETRIES

RQInit ==
    \E fn \in RQFunctions :
        rq = [fn |-> fn, pc |-> "loop", attempt |-> 0, result |-> "none",
              last_err |-> "none", rebuilt |-> 0,
              \* history: the failures met so far
              kinds |-> {}]

\* post_page_robust, lines 110-183: one turn of the for loop; after the last
\* turn the function returns None
CYPostAttempt ==
    /\ prog = "rq" /\ rq.fn = "post_page_robust" /\ rq.pc = "loop"
    /\ \E o \in RQOutcomes :
         LET attempt == rq.attempt + 1
         IN  IF ~CYPostFails(o)
             THEN rq' = [rq EXCEPT !.pc = "returned", !.attempt = attempt,
                                   !.result = "data"]
             ELSE LET r == [rq EXCEPT !.attempt = attempt, !.kinds = @ \cup {o},
                                      !.rebuilt = IF o = "http_401_403" /\ attempt \in {3, 5}
                                                  THEN @ + 1 ELSE @]
                  IN  rq' = IF RQExhausted(attempt, CY_MAX_ATTEMPTS)
                            THEN [r EXCEPT !.pc = "returned", !.result = "None"]
                            ELSE r
    /\ UNCHANGED OthersRQ

\* one turn of a loop that keeps last_err and raises RuntimeError with it after
\* the last turn: the call after meeting outcome o
RQJsonTurn(r, o, max) ==
    LET attempt == r.attempt + 1
    IN  IF ~RQJsonFails(o)
        THEN [r EXCEPT !.pc = "returned", !.attempt = attempt,
                       !.result = IF o = "ok" THEN "data" ELSE "failure_body"]
        ELSE LET f == [r EXCEPT !.attempt = attempt, !.kinds = @ \cup {o},
                                !.last_err = o]
             IN  IF RQExhausted(attempt, max)
                 THEN [f EXCEPT !.pc = "raised", !.result = "RuntimeError"]
                 ELSE f

\* post_with_retry, lines 56-69
TJPostAttempt ==
    /\ prog = "rq" /\ rq.fn = "post_with_retry" /\ rq.pc = "loop"
    /\ \E o \in RQOutcomes : rq' = RQJsonTurn(rq, o, TJ_MAX_RETRIES)
    /\ UNCHANGED OthersRQ

\* _request_json, lines 44-55
SDRequestAttempt ==
    /\ prog = "rq" /\ rq.fn = "_request_json" /\ rq.pc = "loop"
    /\ \E o \in RQOutcomes : rq' = RQJsonTurn(rq, o, SD_MAX_RETRIES)
    /\ UNCHANGED OthersRQ

\* request_page, lines 48-63: a 401/403 raises inside the try like the others
HARequestAttempt ==
    /\ prog = "rq" /\ rq.fn = "request_page" /\ rq.pc = "loop"
    /\ \E o \in RQOutcomes : rq' = RQJsonTurn(rq, o, HA_RETRIES)
    /\ UNCHANGED OthersRQ

RQNext == CYPostAttempt \/ TJPostAttempt \/ SDRequestAttempt \/ HARequestAttempt

(***************************************************************************)
(* 山西 (src/山西/cl.py) and 海南 (src/海南/cl.py): crawl_all asks page 1   *)
(* for totalPage and then walks the pages 2..totalPage. The rows of page p *)
(* stand as the number p.                                                  *)
(***************************************************************************)
\* totalPage the first response reports, at most
MaxTotalPage == 4

\* what the request of one page can end in: a body with code 0, a body with
\* another code, an exception (山西 request_page: after its retries)
PageAnswers == {"ok", "bad_code", "error"}

\* 山西 crawl_all, lines 171-174: a later page with code != 0 is skipped with a
\* warning
SXSkipsBadCode(answer) == answer = "bad_code"

SXInit ==
    \E tp \in 0..MaxTotalPage :
        sx = [pc |-> "first", src_total_page |-> tp, total_page |-> 0, page |-> 1,
              all_rows |-> {}, out |-> {},
              \* history: the pages left out
              skipped |-> {}]

\* crawl_all, lines 147-164: page 1
SXFirstPage ==
    /\ prog = "sx" /\ sx.pc = "first"
    /\ \E a \in PageAnswers :
         sx' = IF a # "ok" THEN [sx EXCEPT !.pc = "raised"]
               ELSE [sx EXCEPT !.pc = "more", !.total_page = sx.src_total_page,
                               !.all_rows = IF sx.src_total_page >= 1 THEN {1} ELSE {},
                               !.page = 2]
    /\ UNCHANGED OthersSX

\* crawl_all, lines 167-183: one turn of for page in range(2, total_page + 1)
SXNextPage ==
    /\ prog = "sx" /\ sx.pc = "more"
    /\ IF sx.page > sx.total_page
       THEN sx' = [sx EXCEPT !.pc = "frame"]
       ELSE \E a \in PageAnswers :
              sx' = IF a = "error" THEN [sx EXCEPT !.pc = "raised"]
                    ELSE IF SXSkipsBadCode(a)
                    THEN [sx EXCEPT !.page = @ + 1, !.skipped = @ \cup {sx.page}]
                    ELSE [sx EXCEPT !.page = @ + 1, !.all_rows = @ \cup {sx.page}]
    /\ UNCHANGED OthersSX

\* crawl_all, lines 185-191, and main, lines 195-202: the frame is written
SXSave ==
    /\ prog = "sx" /\ sx.pc = "frame"
    /\ sx' = [sx EXCEPT !.pc = "saved", !.out = sx.all_rows]
    /\ UNCHANGED OthersSX

SXNext == SXFirstPage \/ SXNextPage \/ SXSave

\* 海南 crawl_all, lines 102-117: a later page with code != 0 or with an
\* exception is reported and left out
HISkipsFailure(answer) == answer \in {"bad_code", "error"}

HIInit ==
    \E tp \in 0..MaxTotalPage :
        hi = [pc |-> "first", src_total_page |-> tp, total_page |-> 0, page |-> 1,
              rows |-> {}, out |-> {}, skipped |-> {}]

\* crawl_all, lines 81-97: page 1
HIFirstPage ==
    /\ prog = "hi" /\ hi.pc = "first"
    /\ \E a \in PageAnswers :
         hi' = IF a # "ok" THEN [hi EXCEPT !.pc = "raised"]
               ELSE [hi EXCEPT !.pc = "more", !.total_page = hi.src_total_page,
                               !.rows = IF hi.src_total_page >= 1 THEN {1} ELSE {},
                               !.page = 2]
    /\ UNCHANGED OthersHI

\* crawl_all, lines 100-117: one turn of for page in range(2, total_page + 1)
HINextPage ==
    /\ prog = "hi" /\ hi.pc = "more"
    /\ IF hi.page > hi.total_page
       THEN hi' = [hi EXCEPT !.pc = "write"]
       ELSE \E a \in PageAnswers :
              hi' = IF HISkipsFailure(a)
                    THEN [hi EXCEPT !.page = @ + 1, !.skipped = @ \cup {hi.page}]
                    ELSE [hi EXCEPT !.page = @ + 1, !.rows = @ \cup {hi.page}]
    /\ UNCHANGED OthersHI

\* crawl_all, lines 119-128: the CSV is written
HISave ==
    /\ prog = "hi" /\ hi.pc = "write"
    /\ hi' = [hi EXCEPT !.pc = "saved", !.out = hi.rows]
    /\ UNCHANGED OthersHI

HINext == HIFirstPage \/ HINextPage \/ HISave

(***************************************************************************)
(* 上海 (src/上海/cl.py), 甘肃 (src/甘肃/cl.py), 广西 (src/广西/cl.py):      *)
(* the rows are collected in memory and the CSV is written after the last  *)
(* page. The rows of page p stand as the number p; csv is the file on      *)
(* disk.                                                                   *)
(***************************************************************************)
\* the output file does not exist
NoFile == [written |-> FALSE, rows |-> {}]

\* open(output_csv, "w") ... writerows(all_rows), or DataFrame.to_csv
CsvOf(all_rows) == [written |-> TRUE, rows |-> all_rows]

SHInit ==
    \E tp \in 0..MaxTotalPage :
        sh = [pc |-> "first", src_total_page |-> tp, total_page |-> 0, p |-> 1,
              all_rows |-> {}, csv |-> NoFile]

\* crawl_all_to_csv, lines 115-132: page 1; fetch_page raises on an HTTP
\* error, a body that is not JSON and a code other than 200
SHFirstPage ==
    /\ prog = "sh" /\ sh.pc = "first"
    /\ \E ok \in BOOLEAN :
         sh' = IF ~ok THEN [sh EXCEPT !.pc = "raised"]
               ELSE [sh EXCEPT !.pc = "more", !.total_page = sh.src_total_page,
                               !.all_rows = IF sh.src_total_page >= 1 THEN {1} ELSE {},
                               !.p = 2]
    /\ UNCHANGED OthersSH

\* crawl_all_to_csv, lines 135-142: one turn of for p in range(2, total_page + 1)
SHNextPage ==
    /\ prog = "sh" /\ sh.pc = "more"
    /\ IF sh.p > sh.total_page
       THEN sh' = [sh EXCEPT !.pc = "write"]
       ELSE \E ok \in BOOLEAN :
              sh' = IF ~ok THEN [sh EXCEPT !.pc = "raised"]
                    ELSE [sh EXCEPT !.p = @ + 1, !.all_rows = @ \cup {sh.p}]
    /\ UNCHANGED OthersSH

\* crawl_all_to_csv, lines 144-154
SHWrite ==
    /\ prog = "sh" /\ sh.pc = "write"
    /\ sh' = IF sh.all_rows = {} THEN [sh EXCEPT !.pc = "raised"]
             ELSE [sh EXCEPT !.pc = "saved", !.csv = CsvOf(sh.all_rows)]
    /\ UNCHANGED OthersSH

SHNext == SHFirstPage \/ SHNextPage \/ SHWrite

GSInit ==
    \E n \in 0..MaxTotalPage :
        gs = [pc |-> "loop", src_pages |-> n, page_no |-> 1, all_rows |-> {},
              csv |-> NoFile]

\* scrape_all, lines 108-127: one turn of the while loop; fetch_page raises on
\* a status other than 200 and on a code other than 0
GSPage ==
    /\ prog = "gs" /\ gs.pc = "loop"
    /\ \E ok \in BOOLEAN :
         gs' = IF ~ok THEN [gs EXCEPT !.pc = "raised"]
               ELSE IF gs.page_no > gs.src_pages THEN [gs EXCEPT !.pc = "write"]
               ELSE [gs EXCEPT !.page_no = @ + 1, !.all_rows = @ \cup {gs.page_no}]
    /\ UNCHANGED OthersGS

\* scrape_all, lines 129-137
GSWrite ==
    /\ prog = "gs" /\ gs.pc = "write"
    /\ gs' = IF gs.all_rows = {} THEN [gs EXCEPT !.pc = "raised"]
             ELSE [gs EXCEPT !.pc = "saved", !.csv = CsvOf(gs.all_rows)]
    /\ UNCHANGED OthersGS

GSNext == GSPage \/ GSWrite

\* crawl_all's max_retries (src/广西/cl.py)
GX_MAX_RETRIES == 4

GXInit ==
    \E tp \in 0..MaxTotalPage :
        gx = [pc |-> "first", src_total_pages |-> tp, total_pages |-> 0, page |-> 1,
              attempt |-> 0, all_rows |-> {}, csv |-> NoFile]

\* crawl_all, lines 58-71: page 1 (no retry around it); total = 0 returns an
\* empty frame
GXFirstPage ==
    /\ prog = "gx" /\ gx.pc = "first"
    /\ \E ok \in BOOLEAN :
         gx' = IF ~ok THEN [gx EXCEPT !.pc = "raised"]
               ELSE IF gx.src_total_pages = 0 THEN [gx EXCEPT !.pc = "empty"]
               ELSE [gx EXCEPT !.pc = "more", !.total_pages = gx.src_total_pages,
                               !.all_rows = {1}, !.page = 2, !.attempt = 1]
    /\ UNCHANGED OthersGX

\* crawl_all, lines 74-88: one attempt at a page 2..total_pages
GXAttempt ==
    /\ prog = "gx" /\ gx.pc = "more"
    /\ IF gx.page > gx.total_pages
       THEN gx' = [gx EXCEPT !.pc = "frame"]
       ELSE \E ok \in BOOLEAN :
              gx' = IF ok
                    THEN [gx EXCEPT !.page = @ + 1, !.attempt = 1,
                                    !.all_rows = @ \cup {gx.page}]
                    ELSE IF gx.attempt = GX_MAX_RETRIES THEN [gx EXCEPT !.pc = "raised"]
                    ELSE [gx EXCEPT !.attempt = @ + 1]
    /\ UNCHANGED OthersGX

\* crawl_all, lines 95-97, and main, lines 101-109
GXSave ==
    /\ prog = "gx" /\ gx.pc = "frame"
    /\ gx' = [gx EXCEPT !.pc = "saved", !.csv = CsvOf(gx.all_rows)]
    /\ UNCHANGED OthersGX

GXNext == GXFirstPage \/ GXAttempt \/ GXSave

(***************************************************************************)
(* 贵州 (src/贵州/cl.py): main with stream_jsonl = True. append_jsonl is    *)
(* the function of 川渝, so the log is modelled with the same operators.   *)
(***************************************************************************)
\* size of main, scaled down from 10
GZPageSize == 2

\* the source: n records, record k carries the id k
GZSource(n) == [k \in 1..n |-> k]

\* main, lines 96-103: start_page estimated from the number of lines of the
\* log (a cut last line counts as a line)
GZStartPage(jsonl) ==
    IF Len(jsonl) > 0 THEN Max(1, Len(jsonl) \div GZPageSize) ELSE 1

\* main, lines 157-162: json.loads(line) of every non-blank line, not guarded
GZReadable(jsonl) == \A i \in 1..Len(jsonl) : jsonl[i].st = "ok"

GZInit ==
    \E n \in 0..MaxItems :
        gz = [pc |-> "start", src |-> GZSource(n), jsonl |-> <<>>, csv |-> <<>>,
              page |-> 0, items |-> <<>>, runs |-> 1,
              \* history: the records of the appends that completed
              appended |-> {}]

\* main, lines 96-109
GZStart ==
    /\ prog = "gz" /\ gz.pc = "start"
    /\ gz' = [gz EXCEPT !.pc = "loop", !.page = GZStartPage(gz.jsonl)]
    /\ UNCHANGED OthersGZ

\* main, lines 111-139: one page request; fetch_page raises on a body that is
\* not JSON, main raises on success not being 1
GZPage ==
    /\ prog = "gz" /\ gz.pc = "loop"
    /\ \E ok \in BOOLEAN :
         LET items == PageOf(CYItems(gz.src), GZPageSize, gz.page)
         IN  gz' = IF ~ok THEN [gz EXCEPT !.pc = "raised"]
                   ELSE IF items = <<>> THEN [gz EXCEPT !.pc = "consolidate"]
                   ELSE [gz EXCEPT !.pc = "append", !.items = items]
    /\ UNCHANGED OthersGZ

\* main, lines 144-151: append_jsonl(out_jsonl, items); page += 1
GZAppend ==
    /\ prog = "gz" /\ gz.pc = "append"
    /\ gz' = [gz EXCEPT !.pc = "loop", !.page = @ + 1, !.items = <<>>,
                        !.jsonl = CYAppendJsonl(gz.jsonl, gz.items),
                        !.appended = @ \cup {gz.items[i].pos : i \in 1..Len(gz.items)}]
    /\ UNCHANGED OthersGZ

\* main, lines 157-164: the log is read back and the CSV written; an absent
\* log (no page had records) makes open() raise
GZConsolidate ==
    /\ prog = "gz" /\ gz.pc = "consolidate"
    /\ gz' = IF gz.jsonl = <<>> THEN [gz EXCEPT !.pc = "no_log"]
             ELSE IF ~GZReadable(gz.jsonl) THEN [gz EXCEPT !.pc = "consolidate_failed"]
             ELSE [gz EXCEPT !.pc = "saved", !.csv = CYParsed(gz.jsonl)]
    /\ UNCHANGED OthersGZ

\* the process is killed: only the files survive
GZKill ==
    /\ prog = "gz" /\ gz.pc \in {"start", "loop", "append", "consolidate"}
    /\ gz' = [gz EXCEPT !.pc = "dead", !.page = 0, !.items = <<>>]
    /\ UNCHANGED OthersGZ

\* the process is killed inside append_jsonl
GZKillInAppend ==
    /\ prog = "gz" /\ gz.pc = "append"
    /\ \E k \in 0..(Len(gz.items) - 1), tear \in BOOLEAN :
         gz' = [gz EXCEPT !.pc = "dead", !.page = 0, !.items = <<>>,
                          !.jsonl = CYAppendCut(gz.jsonl, gz.items, k, tear)]
    /\ UNCHANGED OthersGZ

\* the script is started again
GZRestart ==
    /\ prog = "gz" /\ gz.runs < MaxRuns
    /\ gz.pc \in {"dead", "raised", "saved", "consolidate_failed", "no_log"}
    /\ gz' = [gz EXCEPT !.pc = "start", !.runs = @ + 1]
    /\ UNCHANGED OthersGZ

GZNext ==
    \/ GZStart \/ GZPage \/ GZAppend \/ GZConsolidate \/ GZKill \/ GZKillInAppend
    \/ GZRestart

(***************************************************************************)
(* The output table: 合肥中心 scrape_all, 川渝 write_csv, 河南 save_csv.    *)
(* A row is a dict, modelled by the sequence of its keys in insertion      *)
(* order; a written line is the sequence of its cells, a cell holding the  *)
(* key whose value it carries, or 0 when it is empty.                      *)
(***************************************************************************)
\* number of distinct column names
MaxKeys == 2
\* number of rows of one crawl
MaxRows == 2

TBKeys == 1..MaxKeys

\* the dicts: non-empty sequences of distinct keys
TBRows ==
    {r \in SeqsUpTo(TBKeys, MaxKeys) :
        /\ Len(r) >= 1
        /\ \A i, j \in 1..Len(r) : i # j => r[i] # r[j]}

KeysOf(row) == {row[i] : i \in 1..Len(row)}

UnionKeys(rows) == UNION {KeysOf(rows[i]) : i \in 1..Len(rows)}

\* sorted(keys)
RECURSIVE SortedKeys(_)
SortedKeys(S) ==
    IF S = {} THEN <<>>
    ELSE LET m == CHOOSE x \in S : \A y \in S : x <= y
         IN  <<m>> \o SortedKeys(S \ {m})

\* 河南 save_csv, lines 86-92: the keys in order of first appearance
RECURSIVE FirstSeenKeys(_, _, _)
FirstSeenKeys(rows, seen, fieldnames) ==
    IF rows = <<>> THEN fieldnames
    ELSE IF Head(rows) = <<>> THEN FirstSeenKeys(Tail(rows), seen, fieldnames)
    ELSE LET k == Head(Head(rows))
             rest == <<Tail(Head(rows))>> \o Tail(rows)
         IN  IF k \in seen THEN FirstSeenKeys(rest, seen, fieldnames)
             ELSE FirstSeenKeys(rest, seen \cup {k}, Append(fieldnames, k))

\* csv.DictWriter.writerow with extrasaction="ignore" (and restval ""): one
\* cell per field name, empty when the row lacks the key; keys of the row
\* outside the field names are dropped
DictWriterRow(fieldnames, row) ==
    [j \in 1..Len(fieldnames) |->
        IF fieldnames[j] \in KeysOf(row) THEN fieldnames[j] ELSE 0]

TBFunctions == {"scrape_all", "write_csv", "save_csv"}

TBInit ==
    \E f \in TBFunctions, rows \in SeqsUpTo(TBRows, MaxRows) :
        tb = [fn |-> f, pc |-> IF f = "scrape_all" THEN "open" ELSE "call",
              rows |-> rows, next |-> 1, header |-> <<>>, lines |-> <<>>,
              mode |-> "none", writer |-> FALSE, fieldnames |-> <<>>, runs |-> 1]

\* 川渝 write_csv: the header is the sorted union of the keys; the rows
\* have no key outside it, so DictWriter never raises
CYWriteTable ==
    /\ prog = "tb" /\ tb.fn = "write_csv" /\ tb.pc = "call"
    /\ LET fieldnames == SortedKeys(UnionKeys(tb.rows))
       IN  tb' = [tb EXCEPT !.pc = "written", !.next = Len(tb.rows) + 1,
                            !.fieldnames = fieldnames, !.header = fieldnames,
                            !.lines = [i \in 1..Len(tb.rows) |->
                                          DictWriterRow(fieldnames, tb.rows[i])]]
    /\ UNCHANGED OthersTB

\* 河南 save_csv: nothing is written for no rows
HASaveCsv ==
    /\ prog = "tb" /\ tb.fn = "save_csv" /\ tb.pc = "call"
    /\ LET fieldnames == FirstSeenKeys(tb.rows, {}, <<>>)
       IN  tb' = IF tb.rows = <<>> THEN [tb EXCEPT !.pc = "written"]
                 ELSE [tb EXCEPT !.pc = "written", !.next = Len(tb.rows) + 1,
                                 !.fieldnames = fieldnames, !.header = fieldnames,
                                 !.lines = [i \in 1..Len(tb.rows) |->
                                               DictWriterRow(fieldnames, tb.rows[i])]]
    /\ UNCHANGED OthersTB

\* 合肥中心 scrape_all, lines 272-279: mode "a" when the file has content
HFOpenCsv ==
    /\ prog = "tb" /\ tb.fn = "scrape_all" /\ tb.pc = "open"
    /\ tb' = [tb EXCEPT !.pc = "rows", !.writer = FALSE, !.fieldnames = <<>>,
                        !.mode = IF tb.header # <<>> \/ tb.lines # <<>>
                                 THEN "a" ELSE "w"]
    /\ UNCHANGED OthersTB

\* scrape_all, lines 289-304: the first row of the run fixes the field names,
\* the header is written only in mode "w"
HFWriteRow ==
    /\ prog = "tb" /\ tb.fn = "scrape_all" /\ tb.pc = "rows"
    /\ tb.next <= Len(tb.rows)
    /\ LET row == tb.rows[tb.next]
           fieldnames == IF tb.writer THEN tb.fieldnames
                         ELSE SortedKeys(KeysOf(row))
       IN  tb' = [tb EXCEPT !.writer = TRUE, !.fieldnames = fieldnames,
                            !.header = IF ~tb.writer /\ tb.mode = "w"
                                       THEN fieldnames ELSE @,
                            !.lines = Append(@, DictWriterRow(fieldnames, row)),
                            !.next = @ + 1]
    /\ UNCHANGED OthersTB

\* scrape_all, lines 311-315: iter_records is exhausted
HFCloseCsv ==
    /\ prog = "tb" /\ tb.fn = "scrape_all" /\ tb.pc = "rows"
    /\ tb.next > Len(tb.rows)
    /\ tb' = [tb EXCEPT !.pc = IF tb.lines = <<>> THEN "raised" ELSE "done"]
    /\ UNCHANGED OthersTB

\* the run ends early (kill or page failure) and the script is started again
\* with resume = True
HFResumeCsv ==
    /\ prog = "tb" /\ tb.fn = "scrape_all" /\ tb.pc = "rows"
    /\ tb.next <= Len(tb.rows) /\ tb.runs < MaxRuns
    /\ tb' = [tb EXCEPT !.pc = "open", !.runs = @ + 1]
    /\ UNCHANGED OthersTB

TBNext ==
    \/ CYWriteTable \/ HASaveCsv
    \/ HFOpenCsv \/ HFWriteRow \/ HFCloseCsv \/ HFResumeCsv

(***************************************************************************)
(* Tag summaries: 安徽 _flatten_product_tags, 山西 flatten_product_tags    *)
(* (field tags_all), 上海 normalize_item (field aiTag). A tag is a record  *)
(* of its type and its name, both numbered from 1, 0 being the empty       *)
(* string; 安徽 and 上海 read the name only. A joined string is the        *)
(* sequence of the names between the '|' signs.                            *)
(***************************************************************************)
\* number of distinct tag names
MaxTag == 2
\* number of distinct tag types
MaxTagType == 2
\* number of tags of one record
MaxTags == 3

TGTags == [ttype : 0..MaxTagType, name : 0..MaxTag]

TagNames(tags) == [i \in 1..Len(tags) |-> tags[i].name]

\* "|".join(parts): the join of [""] is the join of []
JoinBar(parts) == IF parts = <<0>> THEN <<>> ELSE parts

\* the loop "if x not in seen: seen.add(x); out.append(x)"
RECURSIVE Uniq(_, _, _)
Uniq(seq, seen, out) ==
    IF seq = <<>> THEN out
    ELSE IF Head(seq) \in seen THEN Uniq(Tail(seq), seen, out)
    ELSE Uniq(Tail(seq), seen \cup {Head(seq)}, Append(out, Head(seq)))

\* 安徽 _flatten_product_tags, lines 65-73: empty names are dropped, then
\* the names already seen
AHFlattenProductTags(tags) ==
    IF tags = <<>> THEN <<>>
    ELSE JoinBar(Uniq(SelectSeq(TagNames(tags), LAMBDA x : x # 0), {}, <<>>))

\* 山西 flatten_product_tags, lines 80-87: tags without type or name are
\* dropped, the others are grouped by type, the groups in insertion order
SXValidTags(tags) == SelectSeq(tags, LAMBDA t : t.ttype # 0 /\ t.name # 0)

RECURSIVE SXGroupedNames(_, _)
SXGroupedNames(types, valid) ==
    IF types = <<>> THEN <<>>
    ELSE TagNames(SelectSeq(valid, LAMBDA t : t.ttype = Head(types)))
             \o SXGroupedNames(Tail(types), valid)

\* lines 102-104: tags_all
SXTagsAll(tags) ==
    LET valid == SXValidTags(tags)
        types == Uniq([i \in 1..Len(valid) |-> valid[i].ttype], {}, <<>>)
    IN  JoinBar(Uniq(SXGroupedNames(types, valid), {}, <<>>))

\* 上海 normalize_item, lines 96-98: "|".join(str(x) for x in v)
SHJoinList(tags) == JoinBar(TagNames(tags))

TGFunctions == {"_flatten_product_tags", "flatten_product_tags", "normalize_item"}

TGInit ==
    \E f \in TGFunctions, tags \in SeqsUpTo(TGTags, MaxTags) :
        tg = [fn |-> f, pc |-> "call", tags |-> tags, summary |-> <<>>]

AHFlattenTags ==
    /\ prog = "tg" /\ tg.fn = "_flatten_product_tags" /\ tg.pc = "call"
    /\ tg' = [tg EXCEPT !.pc = "done", !.summary = AHFlattenProductTags(tg.tags)]
    /\ UNCHANGED OthersTG

SXFlattenTags ==
    /\ prog = "tg" /\ tg.fn = "flatten_product_tags" /\ tg.pc = "call"
    /\ tg' = [tg EXCEPT !.pc = "done", !.summary = SXTagsAll(tg.tags)]
    /\ UNCHANGED OthersTG

SHNormalizeItem ==
    /\ prog = "tg" /\ tg.fn = "normalize_item" /\ tg.pc = "call"
    /\ tg' = [tg EXCEPT !.pc = "done", !.summary = SHJoinList(tg.tags)]
    /\ UNCHANGED OthersTG

TGNext == AHFlattenTags \/ SXFlattenTags \/ SHNormalizeItem

(***************************************************************************)
(* 数据清洗 (src/数据清洗/tag.py): call_deepseek_json, one attempt of the  *)
(* classification service per step.                                       *)
(***************************************************************************)
\* the ten labels of TARGET_CATEGORIES, in English; the last one is
\* 其他（不可分类的）, the label for what cannot be classified
TARGET_CATEGORIES ==
    {"government", "finance", "transport", "industry", "health", "retail",
     "location", "internet", "environment", "other_unclassifiable"}

\* max_retries of call_deepseek_json
DS_MAX_RETRIES == 5

\* what one attempt can give: an exception of the client (retryable by its
\* text or not), an empty content, a text that is not JSON, JSON that is not
\* an object, or an object with some mapped_category
DSFailures ==
    {"exception_retryable", "exception_other", "empty_content", "not_json",
     "json_not_object"}

DSOutcomes ==
    [kind : DSFailures, label : {""}]
        \cup [kind : {"object"}, label : TARGET_CATEGORIES \cup {"", "outside"}]

\* normalize_category, variant that returns the label as it came
NormalizeCategoryAsIs(cat) == cat

\* normalize_category, lines 61-63
NormalizeCategory(cat) ==
    IF cat \in TARGET_CATEGORIES THEN cat ELSE "other_unclassifiable"

\* is_retryable_error on the exception an outcome raises: "empty content" and
\* "invalid json" are among the keywords
DSRetryable(kind) == kind # "exception_other"

DSInit ==
    ds = [pc |-> "loop", attempt |-> 0, outcomes |-> <<>>,
          mapped_category |-> "none", error |-> "none", last_err |-> "none"]

\* one iteration of the for loop of lines 94-138, and the return of lines
\* 140-146 when the loop is left
DSAttempt ==
    /\ prog = "ds" /\ ds.pc = "loop"
    /\ \E o \in DSOutcomes :
         LET attempt == ds.attempt + 1
             tried == [ds EXCEPT !.attempt = attempt, !.outcomes = Append(@, o)]
         IN  ds' = IF o.kind = "object"
                   THEN [tried EXCEPT !.pc = "returned", !.error = "",
                                      !.mapped_category = NormalizeCategory(o.label)]
                   ELSE IF attempt < DS_MAX_RETRIES /\ DSRetryable(o.kind)
                   THEN [tried EXCEPT !.last_err = o.kind]
                   ELSE [tried EXCEPT !.pc = "returned", !.last_err = o.kind,
                                      !.error = o.kind,
                                      !.mapped_category = "other_unclassifiable"]
    /\ UNCHANGED OthersDS

DSNext == DSAttempt

(***************************************************************************)
(* What a fetcher makes of a response with status 200: 合肥中心 fetch_page  *)
(* with is_likely_blocked, 合肥数据流通 ensure_json_response, 川渝           *)
(* post_page_robust. A response is its content-type header and the kind    *)
(* of its body.                                                            *)
(***************************************************************************)
\* pages of the crawl
RSMaxPages == 2

\* content types: two JSON media types, one written in capitals, HTML, none
RSContentTypes ==
    {"application/json", "application/json;charset=utf-8", "Application/JSON",
     "text/html", ""}

\* a JSON media type, whatever the case
RSJsonMedia(ct) ==
    ct \in {"application/json", "application/json;charset=utf-8", "Application/JSON"}

\* bodies: an object reporting success, an object reporting failure, JSON that
\* is not an object, an HTML document, other text
RSBodies == {"object_ok", "object_fail", "json_list", "html", "text"}

RSResponses == [ct : RSContentTypes, body : RSBodies]

\* resp.json() raises
RSJsonRaises(body) == body \in {"html", "text"}

\* "application/json" in ct, ct lowered first or not
RSInLowered(ct) == RSJsonMedia(ct)
RSInAsSent(ct) == ct \in {"application/json", "application/json;charset=utf-8"}

\* 川渝 is_json_response, variant that accepts every content type
CYIsJsonResponseAny(ct) == TRUE

\* 川渝 is_json_response, lines 88-90
CYIsJsonResponse(ct) == RSInLowered(ct)

\* 合肥中心 is_likely_blocked, lines 86-111
HFIsLikelyBlocked(resp) ==
    IF ~RSInLowered(resp.ct) THEN TRUE
    ELSE IF RSJsonRaises(resp.body) THEN TRUE
    ELSE resp.body = "object_fail"

\* 合肥中心 fetch_page, lines 130-141, for status 200: "raise" or "data"
HFFetchPageResult(resp) ==
    IF HFIsLikelyBlocked(resp) THEN "raise"
    ELSE IF resp.body # "object_ok" THEN "raise"
    ELSE "data"

\* 合肥数据流通 ensure_json_response, lines 57-72, for status 200; a body that
\* does not parse makes resp.json() raise
HLEnsureJsonResponse(resp) ==
    IF ~RSInAsSent(resp.ct) THEN "raise"
    ELSE IF RSJsonRaises(resp.body) THEN "raise"
    ELSE IF resp.body # "object_ok" THEN "raise"
    ELSE "data"

\* 川渝 post_page_robust, lines 149-169, for a 2xx status: "retry" or "data";
\* data.get on JSON that is no object raises and is caught by the last except
CYPostResult(resp) ==
    IF ~CYIsJsonResponse(resp.ct) THEN "retry"
    ELSE IF RSJsonRaises(resp.body) THEN "retry"
    ELSE IF resp.body # "object_ok" THEN "retry"
    ELSE "data"

RSFunctions == {"hf_fetch_page", "ensure_json_response", "post_page_robust"}

RSInit ==
    \E f \in RSFunctions :
        rs = [fn |-> f, pc |-> "fetch", page |-> 1, attempt |-> 0,
              out |-> {}, ckpt |-> 1,
              \* the response of the latest request
              resp |-> [ct |-> "", body |-> "none"],
              \* history: the responses whose records went to the output
              accepted |-> {}]

\* the page was answered with data: its records are emitted, the next page
\* is written to the checkpoint
RSAccept(r, resp) ==
    [r EXCEPT !.resp = resp, !.out = @ \cup {r.page}, !.accepted = @ \cup {resp},
              !.ckpt = r.page + 1, !.page = @ + 1, !.attempt = 0,
              !.pc = IF r.page = RSMaxPages THEN "done" ELSE "fetch"]

\* 合肥中心 iter_records, lines 207-243: three attempts, then the error is
\* raised again
HFFetchResponse ==
    /\ prog = "rs" /\ rs.fn = "hf_fetch_page" /\ rs.pc = "fetch"
    /\ \E resp \in RSResponses :
         rs' = IF HFFetchPageResult(resp) = "data" THEN RSAccept(rs, resp)
               ELSE IF rs.attempt + 1 >= HF_ATTEMPTS
               THEN [rs EXCEPT !.resp = resp, !.attempt = @ + 1, !.pc = "raised"]
               ELSE [rs EXCEPT !.resp = resp, !.attempt = @ + 1]
    /\ UNCHANGED OthersRS

\* 合肥数据流通 scrape_all, lines 128-150: no retry and no checkpoint
HLFetchResponse ==
    /\ prog = "rs" /\ rs.fn = "ensure_json_response" /\ rs.pc = "fetch"
    /\ \E resp \in RSResponses :
         rs' = IF HLEnsureJsonResponse(resp) = "data"
               THEN [RSAccept(rs, resp) EXCEPT !.ckpt = 1]
               ELSE [rs EXCEPT !.resp = resp, !.attempt = @ + 1, !.pc = "raised"]
    /\ UNCHANGED OthersRS

\* 川渝 post_page_robust and main, lines 244-250: after eight failures the
\* page itself is written to the checkpoint and the crawl stops
CYPostResponse ==
    /\ prog = "rs" /\ rs.fn = "post_page_robust" /\ rs.pc = "fetch"
    /\ \E resp \in RSResponses :
         rs' = IF CYPostResult(resp) = "data" THEN RSAccept(rs, resp)
               ELSE IF rs.attempt + 1 >= CY_MAX_ATTEMPTS
               THEN [rs EXCEPT !.resp = resp, !.attempt = @ + 1, !.pc = "stopped", !.ckpt = rs.page]
               ELSE [rs EXCEPT !.resp = resp, !.attempt = @ + 1]
    /\ UNCHANGED OthersRS

RSNext == HFFetchResponse \/ HLFetchResponse \/ CYPostResponse

(***************************************************************************)
(* The normalization of the records of one page: 内蒙古 consume with       *)
(* flatten_record, 山西 crawl_all with normalize_item and                  *)
(* flatten_product_tags. A record is modelled by its shape.                *)
(***************************************************************************)
\* shapes of a record of 内蒙古: a mapping with id; None; a value that is no
\* mapping (a string); productInfo that is a non-empty list; a productId that
\* is a list
NMShapes == {"good", "none", "not_mapping", "info_not_mapping", "id_unhashable"}

\* flatten_record and the body of consume, lines 48-96: "row" (the flat row is
\* appended), or "raise": .get on a string and .items on a list raise
\* AttributeError, "pid in seen_ids" on a list raises TypeError
NMConsumeOne(shape) ==
    IF shape \in {"not_mapping", "info_not_mapping", "id_unhashable"}
    THEN "raise" ELSE "row"

\* shapes of an item of 山西: a mapping with well-formed tags; a value that is
\* no mapping; a tag that is no mapping; a tag whose type is a number; a tag
\* whose type and name are None
SXShapes ==
    {"good", "not_mapping", "tag_not_mapping", "tag_type_not_string",
     "tag_none_fields"}

\* normalize_item and flatten_product_tags, lines 73-137: item.get, t.get and
\* .strip() raise AttributeError on the wrong type; a None field reads as ""
SXNormalizeOne(shape) ==
    IF shape \in {"not_mapping", "tag_not_mapping", "tag_type_not_string"}
    THEN "raise" ELSE "row"

NZInit ==
    \E f \in {"consume", "normalize_item"} :
      \E recs \in SeqsUpTo(IF f = "consume" THEN NMShapes ELSE SXShapes, MaxItems) :
        nz = [fn |-> f, pc |-> "page", recs |-> recs, i |-> 1, rows |-> {}]

\* 内蒙古 consume, lines 84-93: one turn of "for rec in recs"
NMConsumeRec ==
    /\ prog = "nz" /\ nz.fn = "consume" /\ nz.pc = "page"
    /\ nz' = IF nz.i > Len(nz.recs) THEN [nz EXCEPT !.pc = "done"]
             ELSE IF NMConsumeOne(nz.recs[nz.i]) = "raise"
             THEN [nz EXCEPT !.pc = "raised"]
             ELSE [nz EXCEPT !.rows = @ \cup {nz.i}, !.i = @ + 1]
    /\ UNCHANGED OthersNZ

\* 山西 crawl_all, lines 165-166 and 181-182: one turn of "for item in lst"
SXNormalizeRec ==
    /\ prog = "nz" /\ nz.fn = "normalize_item" /\ nz.pc = "page"
    /\ nz' = IF nz.i > Len(nz.recs) THEN [nz EXCEPT !.pc = "done"]
             ELSE IF SXNormalizeOne(nz.recs[nz.i]) = "raise"
             THEN [nz EXCEPT !.pc = "raised"]
             ELSE [nz EXCEPT !.rows = @ \cup {nz.i}, !.i = @ + 1]
    /\ UNCHANGED OthersNZ

NZNext == NMConsumeRec \/ SXNormalizeRec

(***************************************************************************)
(* Deduplication by key: 山东 main, 广东 dedup_key and main, 川渝 main.     *)
(* A row is its id field ("none" when the field is absent, "" when it is   *)
(* empty), its serial number (read by 广东 only) and the rest of its       *)
(* content.                                                                *)
(***************************************************************************)
DKRows == [id : {"none", "", "a"}, sn : {"", "s"}, content : {"x", "y"}]

\* 山东 main, lines 224-225: rid if rid is not None else json.dumps(r)
SDUniqKey(r) == IF r.id # "none" THEN <<"id", r.id>> ELSE <<"json", r>>

\* 广东 dedup_key, lines 95-101: the id, else the serial number; item.get
\* reads an absent id as ""
GDDedupKey(r) == IF r.id \notin {"none", ""} THEN r.id ELSE r.sn

DKInit ==
    \E f \in {"sd_main", "gd_main", "cy_main"}, rows \in SeqsUpTo(DKRows, MaxRows) :
        dk = [fn |-> f, pc |-> "rows", rows |-> rows, i |-> 1,
              keys |-> <<>>, out |-> <<>>]

\* 山东 main, lines 222-226: uniq[key] = r; a dict keeps the place of the
\* first insertion and the value of the last
SDMergeRow ==
    /\ prog = "dk" /\ dk.fn = "sd_main" /\ dk.pc = "rows"
    /\ LET r == IF dk.i <= Len(dk.rows) THEN dk.rows[dk.i] ELSE dk.rows
           k == SDUniqKey(r)
           at == {j \in 1..Len(dk.keys) : dk.keys[j] = k}
       IN  dk' = IF dk.i > Len(dk.rows) THEN [dk EXCEPT !.pc = "done"]
                 ELSE IF at # {}
                 THEN [dk EXCEPT !.i = @ + 1,
                                 !.out = [j \in 1..Len(dk.out) |->
                                            IF j \in at THEN r ELSE dk.out[j]]]
                 ELSE [dk EXCEPT !.i = @ + 1, !.keys = Append(@, k),
                                 !.out = Append(@, r)]
    /\ UNCHANGED OthersDK

\* 广东 main, lines 128-137: "if not k or k in seen: continue"
GDAddRow ==
    /\ prog = "dk" /\ dk.fn = "gd_main" /\ dk.pc = "rows"
    /\ LET r == IF dk.i <= Len(dk.rows) THEN dk.rows[dk.i] ELSE dk.rows
           k == GDDedupKey(r)
       IN  dk' = IF dk.i > Len(dk.rows) THEN [dk EXCEPT !.pc = "done"]
                 ELSE IF k = "" \/ \E j \in 1..Len(dk.keys) : dk.keys[j] = k
                 THEN [dk EXCEPT !.i = @ + 1]
                 ELSE [dk EXCEPT !.i = @ + 1, !.keys = Append(@, k),
                                 !.out = Append(@, r)]
    /\ UNCHANGED OthersDK

\* 川渝 main, lines 259-268: an item whose goodsId is None is always kept
CYFilterItem ==
    /\ prog = "dk" /\ dk.fn = "cy_main" /\ dk.pc = "rows"
    /\ LET r == IF dk.i <= Len(dk.rows) THEN dk.rows[dk.i] ELSE dk.rows
       IN  dk' = IF dk.i > Len(dk.rows) THEN [dk EXCEPT !.pc = "done"]
                 ELSE IF r.id = "none"
                 THEN [dk EXCEPT !.i = @ + 1, !.out = Append(@, r)]
                 ELSE IF \E j \in 1..Len(dk.keys) : dk.keys[j] = r.id
                 THEN [dk EXCEPT !.i = @ + 1]
                 ELSE [dk EXCEPT !.i = @ + 1, !.keys = Append(@, r.id),
                                 !.out = Append(@, r)]
    /\ UNCHANGED OthersDK

DKNext == SDMergeRow \/ GDAddRow \/ CYFilterItem

(***************************************************************************)
(* Key order: 合肥中心 flatten_record and the content key of 山东 main.     *)
(* One record value is written twice, each time with its own order of the  *)
(* top-level keys k1, k2, k3 and of the keys n1, n2 of the object under k3.*)
(***************************************************************************)
FLTopOrders ==
    {s \in [1..3 -> {"k1", "k2", "k3"}] : \A i, j \in 1..3 : i # j => s[i] # s[j]}

FLNestedOrders == {<<"n1", "n2">>, <<"n2", "n1">>}

FLRecords == [top : FLTopOrders, nested : FLNestedOrders]

\* json.dumps(v, ensure_ascii=False) of the nested object: the keys come out
\* in the order of the dict, sort_keys is not set
JsonDumpsNested(nested) == nested

\* 合肥中心 flatten_record, lines 147-154: a dict from the keys to the values,
\* the nested object replaced by its dump; two dicts are equal whatever the
\* order of their keys
HFFlattenRecord(rec) ==
    [k1 |-> <<"v1">>, k2 |-> <<"v2">>, k3 |-> JsonDumpsNested(rec.nested)]

\* 山东 main, line 225: json.dumps(r, ensure_ascii=False) of a row without id
SDContentKey(rec) == <<rec.top, JsonDumpsNested(rec.nested)>>

FLInit ==
    \E f \in {"flatten_record", "sd_main"}, a \in FLRecords, b \in FLRecords :
        fl = [fn |-> f, pc |-> "call", rec_a |-> a, rec_b |-> b,
              res_a |-> <<>>, res_b |-> <<>>]

HFFlattenBoth ==
    /\ prog = "fl" /\ fl.fn = "flatten_record" /\ fl.pc = "call"
    /\ fl' = [fl EXCEPT !.pc = "done", !.res_a = HFFlattenRecord(fl.rec_a),
                        !.res_b = HFFlattenRecord(fl.rec_b)]
    /\ UNCHANGED OthersFL

SDKeyBoth ==
    /\ prog = "fl" /\ fl.fn = "sd_main" /\ fl.pc = "call"
    /\ fl' = [fl EXCEPT !.pc = "done", !.res_a = SDContentKey(fl.rec_a),
                        !.res_b = SDContentKey(fl.rec_b)]
    /\ UNCHANGED OthersFL

FLNext == HFFlattenBoth \/ SDKeyBoth

(***************************************************************************)
(* Thread pools: 河北 cl1.py main (worker, one detail request per uid) and *)
(* 数据清洗 tag.py main (worker_task, one classification per row). A task  *)
(* is numbered by the place of its uid or row in the input.                *)
(***************************************************************************)
\* number of tasks
MaxTasks == 3
\* max_workers, scaled down from 6 and 12
MaxWorkers == 2

NoSession == [owner |-> "none", id |-> 0]
NoResult == [task |-> 0, kind |-> "none"]

\* the session or client object a task works with: 河北 worker reads the
\* variable session of main (cl1.py line 87, used in line 121); worker_task
\* builds an OpenAI client of its own (tag.py line 163)
TPSessionOf(fn, t) ==
    IF fn = "hebei_main" THEN [owner |-> "main", id |-> 0]
    ELSE [owner |-> "task", id |-> t]

\* 数据清洗 main, lines 229-234, variant that files a result under the order
\* of completion
TAGSlotByCompletion(idx, pos) == pos

\* 数据清洗 main, lines 229-234: mapped[idx] = res[...], idx returned by the task
TAGSlot(idx, pos) == idx

\* the place a completed future is filed under: 河北 uses futures[fut]
TPSlot(fn, idx, pos) == IF fn = "tag_main" THEN TAGSlot(idx, pos) ELSE idx

TPInit ==
    \E f \in {"hebei_main", "tag_main"}, n \in 1..MaxTasks :
        pl = [fn |-> f, pc |-> "pool", n |-> n,
              fut |-> [t \in 1..n |-> "queued"],
              sess |-> [t \in 1..n |-> NoSession],
              res |-> [t \in 1..n |-> NoResult],
              map |-> [t \in 1..n |-> NoResult],
              done |-> <<>>, out |-> <<>>]

\* a free thread of the pool starts the task
TPWorkerStart ==
    /\ prog = "pl" /\ pl.pc = "pool"
    /\ Cardinality({t \in 1..pl.n : pl.fut[t] = "running"}) < MaxWorkers
    /\ \E t \in 1..pl.n :
         /\ pl.fut[t] = "queued"
         /\ pl' = [pl EXCEPT !.fut[t] = "running", !.sess[t] = TPSessionOf(pl.fn, t)]
    /\ UNCHANGED OthersPL

\* the task returns its result or, in 河北, raises; worker_task returns what
\* call_deepseek_json returns, which is a result also after failures
TPWorkerReturn ==
    /\ prog = "pl" /\ pl.pc = "pool"
    /\ \E t \in 1..pl.n, kind \in {"data", "error"} :
         /\ pl.fut[t] = "running"
         /\ pl' = [pl EXCEPT !.fut[t] = "finished", !.sess[t] = NoSession,
                             !.res[t] = [task |-> t, kind |-> kind]]
    /\ UNCHANGED OthersPL

\* the main thread takes the next completed future from as_completed and
\* files its result
TPAsCompleted ==
    /\ prog = "pl" /\ pl.pc = "pool"
    /\ \E t \in 1..pl.n :
         /\ pl.fut[t] = "finished"
         /\ pl' = [pl EXCEPT !.fut[t] = "collected", !.done = Append(@, t),
                             !.map[TPSlot(pl.fn, t, Len(pl.done) + 1)] = pl.res[t]]
    /\ UNCHANGED OthersPL

\* 河北 lines 155-167, 数据清洗 lines 251-256: the output is built in the
\* order of the input
TPWriteOutput ==
    /\ prog = "pl" /\ pl.pc = "pool"
    /\ \A t \in 1..pl.n : pl.fut[t] = "collected"
    /\ pl' = [pl EXCEPT !.pc = "written", !.out = [i \in 1..pl.n |-> pl.map[i]]]
    /\ UNCHANGED OthersPL

TPNext == TPWorkerStart \/ TPWorkerReturn \/ TPAsCompleted \/ TPWriteOutput

(***************************************************************************)
(* 湖北 get_date.py: main, worker, process_one. The workers are coroutines *)
(* of one event loop: a worker runs until its next await. A row is         *)
(* numbered by its index; a recorded date is the row's number, 0 stands    *)
(* for None (no date) and -1 for a row absent from the map.                *)
(***************************************************************************)
\* CONCURRENCY
DT_CONCURRENCY == 2

\* what process_one comes to: a date, or one of the failures
DTOutcomes ==
    {"date", "no_detail_url", "fatal_navigation", "no_cert_img", "download_fail",
     "ocr_no_date"}

\* register_date of the result of process_one for a row
DTRegisterDate(row_idx, outcome) == IF outcome = "date" THEN row_idx ELSE 0

\* worker, lines 219-225, variant with an await between the steps of the block
DTHoldsLoopNever(pc) == FALSE

\* worker, lines 219-225: from the return of process_one to the sleep there
\* is no await, so the worker keeps the event loop through these steps
DTHoldsLoop(pc) == pc \in {"record", "append", "save"}

DTIdleWorker == [pc |-> "get", item |-> 0, res |-> [row_idx |-> 0, date |-> 0, error |-> "none"]]

\* main, lines 244-252: the rows to process are those absent from done_map
RECURSIVE DTToProcess(_, _, _)
DTToProcess(done_map, idx, n) ==
    IF idx > n THEN <<>>
    ELSE IF done_map[idx] # -1 THEN DTToProcess(done_map, idx + 1, n)
    ELSE <<idx>> \o DTToProcess(done_map, idx + 1, n)

DTInit ==
    \E n \in 1..MaxRows :
        dt = [pc |-> "start", n |-> n, queue |-> <<>>, busy |-> 0,
              w |-> [k \in 1..DT_CONCURRENCY |-> DTIdleWorker],
              results |-> [t \in 1..n |-> -1],
              done_map |-> [t \in 1..n |-> -1],
              jl |-> <<>>, ckpt |-> [t \in 1..n |-> -1],
              out |-> <<>>, runs |-> 1,
              \* history: the checkpoint as loaded, the rows queued, the rows
              \* taken by the workers and the latest own result of each row
              loaded |-> [t \in 1..n |-> -1], queued |-> {}, taken |-> <<>>,
              own |-> [t \in 1..n |-> -1]]

\* the value a step leaves in busy
DTBusyAfter(k, pc) == IF DTHoldsLoop(pc) THEN k ELSE 0

\* main, lines 231-262: the checkpoint is loaded and the queue filled; with
\* nothing to do the output is written from the checkpoint at once
DTStart ==
    /\ prog = "dt" /\ dt.pc = "start"
    /\ LET q == DTToProcess(dt.ckpt, 1, dt.n)
           loaded == [dt EXCEPT !.done_map = dt.ckpt, !.loaded = dt.ckpt,
                                !.queued = {q[i] : i \in 1..Len(q)}, !.taken = <<>>,
                                !.results = [t \in 1..dt.n |-> -1]]
       IN  dt' = IF q = <<>>
                 THEN [loaded EXCEPT !.pc = "saved",
                                     !.out = [i \in 1..dt.n |-> dt.ckpt[i]]]
                 ELSE [loaded EXCEPT !.pc = "join", !.queue = q,
                                     !.w = [k \in 1..DT_CONCURRENCY |-> DTIdleWorker]]
    /\ UNCHANGED OthersDT

\* worker, lines 205-211: queue.get(); None closes the worker
DTGet ==
    /\ prog = "dt" /\ dt.pc \in {"join", "stopping"} /\ dt.busy = 0
    /\ dt.queue # <<>>
    /\ \E k \in 1..DT_CONCURRENCY :
         /\ dt.w[k].pc = "get"
         /\ LET item == Head(dt.queue)
            IN  dt' = IF item = 0
                      THEN [dt EXCEPT !.queue = Tail(@), !.w[k].pc = "closed"]
                      ELSE [dt EXCEPT !.queue = Tail(@), !.w[k].pc = "process",
                                      !.w[k].item = item, !.taken = Append(@, item)]
    /\ UNCHANGED OthersDT

\* worker, lines 213-217, and process_one: the result of the row, an
\* exception of process_one being turned into a result with error "fatal"
DTProcessOne ==
    /\ prog = "dt" /\ dt.busy = 0
    /\ \E k \in 1..DT_CONCURRENCY, o \in DTOutcomes :
         /\ dt.w[k].pc = "process"
         /\ LET row_idx == dt.w[k].item
                res == [row_idx |-> row_idx, date |-> DTRegisterDate(row_idx, o),
                        error |-> IF o = "date" THEN "none" ELSE o]
            IN  dt' = [dt EXCEPT !.w[k].pc = "record", !.w[k].res = res,
                                 !.own[row_idx] = res.date,
                                 !.busy = DTBusyAfter(k, "record")]
    /\ UNCHANGED OthersDT

\* worker, lines 219-221: results[row_idx] = res; done_map[str(row_idx)] = date
DTRecord ==
    /\ prog = "dt"
    /\ \E k \in 1..DT_CONCURRENCY :
         /\ dt.busy \in {0, k} /\ dt.w[k].pc = "record"
         /\ dt' = [dt EXCEPT !.results[dt.w[k].item] = dt.w[k].res.date,
                             !.done_map[dt.w[k].item] = dt.w[k].res.date,
                             !.w[k].pc = "append", !.busy = DTBusyAfter(k, "append")]
    /\ UNCHANGED OthersDT

\* worker, line 224: append_jsonl(res)
DTAppendJsonl ==
    /\ prog = "dt"
    /\ \E k \in 1..DT_CONCURRENCY :
         /\ dt.busy \in {0, k} /\ dt.w[k].pc = "append"
         /\ dt' = [dt EXCEPT !.jl = Append(@, dt.w[k].res),
                             !.w[k].pc = "save", !.busy = DTBusyAfter(k, "save")]
    /\ UNCHANGED OthersDT

\* worker, lines 225-228: save_checkpoint(done_map), then the sleep
DTSaveCheckpoint ==
    /\ prog = "dt"
    /\ \E k \in 1..DT_CONCURRENCY :
         /\ dt.busy \in {0, k} /\ dt.w[k].pc = "save"
         /\ dt' = [dt EXCEPT !.ckpt = dt.done_map,
                             !.w[k].pc = "sleep", !.busy = DTBusyAfter(k, "sleep")]
    /\ UNCHANGED OthersDT

\* worker, line 229: queue.task_done() after the sleep
DTTaskDone ==
    /\ prog = "dt" /\ dt.busy = 0
    /\ \E k \in 1..DT_CONCURRENCY :
         /\ dt.w[k].pc = "sleep"
         /\ dt' = [dt EXCEPT !.w[k] = DTIdleWorker]
    /\ UNCHANGED OthersDT

\* a variant that queues one None too few
DTSentinelsOneShort(n) == [k \in 1..(n - 1) |-> 0]

\* main, lines 279-280: `for _ in range(CONCURRENCY): queue.put_nowait(None)`
DTSentinels(n) == [k \in 1..n |-> 0]

\* main, lines 273-280: queue.join() returns, one None per worker is queued
DTStopWorkers ==
    /\ prog = "dt" /\ dt.pc = "join" /\ dt.busy = 0
    /\ dt.queue = <<>> /\ \A k \in 1..DT_CONCURRENCY : dt.w[k].pc = "get"
    /\ dt' = [dt EXCEPT !.pc = "stopping",
                        !.queue = DTSentinels(DT_CONCURRENCY)]
    /\ UNCHANGED OthersDT

\* main, lines 279-294: the workers are gathered, register_date is written
\* back row by row from done_map
DTWriteCsv ==
    /\ prog = "dt" /\ dt.pc = "stopping"
    /\ \A k \in 1..DT_CONCURRENCY : dt.w[k].pc = "closed"
    /\ dt' = [dt EXCEPT !.pc = "saved", !.out = [i \in 1..dt.n |-> dt.done_map[i]]]
    /\ UNCHANGED OthersDT

\* the script is run again
DTRestart ==
    /\ prog = "dt" /\ dt.pc = "saved" /\ dt.runs < MaxRuns
    /\ dt' = [dt EXCEPT !.pc = "start", !.runs = @ + 1, !.out = <<>>,
                        !.w = [k \in 1..DT_CONCURRENCY |-> DTIdleWorker]]
    /\ UNCHANGED OthersDT

DTNext ==
    \/ DTStart \/ DTGet \/ DTProcessOne \/ DTRecord \/ DTAppendJsonl
    \/ DTSaveCheckpoint \/ DTTaskDone \/ DTStopWorkers \/ DTWriteCsv \/ DTRestart

(***************************************************************************)
(* Requests and sleeps: 山西 crawl_all, 江苏 scrape_all, 青岛大数据         *)
(* scrape_all. The crawl is the sequence of its events, "fetch" for a page *)
(* request and "sleep" for a politeness delay.                             *)
(***************************************************************************)
SLInit ==
    \E f \in {"sx_crawl_all", "js_scrape_all", "qd_scrape_all"},
       total_page \in 1..MaxTotalPage :
        sl = [fn |-> f, pc |-> "first", total_page |-> total_page, page |-> 1,
              events |-> <<>>]

\* the request of page 1, before the loop over the later pages: 山西 lines
\* 150-166, 江苏 lines 106-119, 青岛大数据 lines 87-99; no sleep follows it
SLFirstPage ==
    /\ prog = "sl" /\ sl.pc = "first"
    /\ \E ok \in BOOLEAN :
         sl' = IF ok THEN [sl EXCEPT !.pc = "loop", !.page = 2,
                                     !.events = Append(@, "fetch")]
               ELSE [sl EXCEPT !.pc = "raised", !.events = Append(@, "fetch")]
    /\ UNCHANGED OthersSL

\* the end of "for page in range(2, total_page + 1)"
SLLoopEnd ==
    /\ prog = "sl" /\ sl.pc = "loop" /\ sl.page > sl.total_page
    /\ sl' = [sl EXCEPT !.pc = "done"]
    /\ UNCHANGED OthersSL

\* 山西 crawl_all, lines 169-184: a page with code != 0 is skipped by
\* continue, before the sleep at the end of the body
SXLaterPage ==
    /\ prog = "sl" /\ sl.fn = "sx_crawl_all" /\ sl.pc = "loop"
    /\ sl.page <= sl.total_page
    /\ \E answer \in {"ok", "bad_code"} :
         sl' = IF answer = "bad_code"
               THEN [sl EXCEPT !.page = @ + 1, !.events = Append(@, "fetch")]
               ELSE [sl EXCEPT !.page = @ + 1,
                               !.events = @ \o <<"fetch", "sleep">>]
    /\ UNCHANGED OthersSL

\* 江苏 scrape_all, lines 127-143: an empty page, or all of totalCount
\* fetched, leaves the loop before the sleep
JSLaterPage ==
    /\ prog = "sl" /\ sl.fn = "js_scrape_all" /\ sl.pc = "loop"
    /\ sl.page <= sl.total_page
    /\ \E answer \in {"ok", "empty", "total_reached"} :
         sl' = IF answer = "ok"
               THEN [sl EXCEPT !.page = @ + 1,
                               !.events = @ \o <<"fetch", "sleep">>]
               ELSE [sl EXCEPT !.pc = "done", !.events = Append(@, "fetch")]
    /\ UNCHANGED OthersSL

\* 青岛大数据 scrape_all, lines 102-110
QDLaterPage ==
    /\ prog = "sl" /\ sl.fn = "qd_scrape_all" /\ sl.pc = "loop"
    /\ sl.page <= sl.total_page
    /\ \E answer \in {"ok", "empty"} :
         sl' = IF answer = "ok"
               THEN [sl EXCEPT !.page = @ + 1,
                               !.events = @ \o <<"fetch", "sleep">>]
               ELSE [sl EXCEPT !.pc = "done", !.events = Append(@, "fetch")]
    /\ UNCHANGED OthersSL

SLNext == SLFirstPage \/ SLLoopEnd \/ SXLaterPage \/ JSLaterPage \/ QDLaterPage

(***************************************************************************)
(* 川渝 post_page_robust as main calls it, page after page: the wait after  *)
(* a failed attempt, in milliseconds, and the session objects. A session   *)
(* is a number: main builds session 1, a rebuild inside the fetch makes    *)
(* the next number.                                                        *)
(***************************************************************************)
\* the pages main asks for before the source answers with an empty page
BOMaxPages == 2
\* the largest Retry-After the server sends, in seconds
MaxRetryAfter == 100

\* the cap of the wait after HTTP 429, min(90, ...), in milliseconds
CY_429_CAP_MS == 90000

\* Retry-After: the header is absent, or it is a string that is not all
\* digits (an HTTP date, "1.5"), or it is the digits of a number of seconds
NotDigits == -2
BORetryAfters == {Absent, NotDigits, 0, 1, MaxRetryAfter}

\* random.uniform(0.5, 2.0) and random.uniform(1.0, 4.0): the two ends
BOJitterRA == {500, 2000}
BOJitterBackoff == {1000, 4000}

\* 1.8 ** attempt, in milliseconds (rounded down at each step)
RECURSIVE Pow18ms(_)
Pow18ms(a) == IF a = 0 THEN 1000 ELSE (Pow18ms(a - 1) * 18) \div 10

\* line 138: min(90, (1.8 ** attempt) + random.uniform(1.0, 4.0))
CYBackoff429(attempt, u) == Min(CY_429_CAP_MS, Pow18ms(attempt) + u)

\* a variant that backs off whatever the header says
CYWait429Backoff(ra, attempt, u) == CYBackoff429(attempt, 1000)

\* lines 134-138: `if ra and ra.isdigit()` takes int(ra) plus the jitter,
\* otherwise the capped exponential; u is the pair of the two random draws
CYWait429(ra, attempt, u) ==
    IF ra # Absent /\ ra # NotDigits
    THEN ra * 1000 + u[1]
    ELSE CYBackoff429(attempt, u[2])

BONoWait == [attempt |-> 0, ra |-> Absent, wait |-> 0]

BOInit ==
    bo = [pc |-> "main", page |-> 1,
          \* main's variable session, the sessions built, the open ones
          session |-> 1, made |-> 1, live |-> {1},
          \* post_page_robust's parameter session, 0 outside a call
          local |-> 0, attempt |-> 0, n429 |-> 0,
          \* history: the wait after the latest 429 of this call, the session
          \* that sent the latest request, the calls that returned
          last |-> BONoWait, used |-> 0, calls |-> 0]

\* main, lines 240-244: the call post_page_robust(session, ...)
BOCall ==
    /\ prog = "bo" /\ bo.pc = "main" /\ bo.page <= BOMaxPages
    /\ bo' = [bo EXCEPT !.pc = "fetch", !.local = bo.session, !.attempt = 0,
                        !.n429 = 0, !.last = BONoWait]
    /\ UNCHANGED OthersBO

\* main, lines 250-255: the page past the last one comes back empty
BOEmptyPage ==
    /\ prog = "bo" /\ bo.pc = "main" /\ bo.page > BOMaxPages
    /\ bo' = [bo EXCEPT !.pc = "done"]
    /\ UNCHANGED OthersBO

\* the return of post_page_robust to main: the parameter session is gone;
\* main goes to the next page on data and stops on None (lines 246-249)
BOReturn(r, result) ==
    [r EXCEPT !.local = 0, !.calls = @ + 1,
              !.pc = IF result = "data" THEN "main" ELSE "stopped",
              !.page = IF result = "data" THEN @ + 1 ELSE @]

\* post_page_robust, lines 110-183: one turn of the for loop
BOAttempt ==
    /\ prog = "bo" /\ bo.pc = "fetch"
    /\ \E o \in {"ok", "http_401_403", "http_429", "other_failure"},
          ra \in BORetryAfters, u1 \in BOJitterRA, u2 \in BOJitterBackoff :
         LET attempt == bo.attempt + 1
             sent    == [bo EXCEPT !.attempt = attempt, !.used = bo.local]
             failed  ==
                 IF o = "http_401_403" /\ attempt \in {3, 5}
                 THEN \* lines 124-129: session.close(); session = build_session()
                      [sent EXCEPT !.live = (@ \ {bo.local}) \cup {bo.made + 1},
                                   !.made = @ + 1, !.local = bo.made + 1]
                 ELSE IF o = "http_429"
                 THEN [sent EXCEPT !.n429 = @ + 1,
                                   !.last = [attempt |-> attempt, ra |-> ra,
                                             wait |-> CYWait429(ra, attempt, <<u1, u2>>)]]
                 ELSE sent
         IN  bo' = IF o = "ok" THEN BOReturn(sent, "data")
                   ELSE IF RQExhausted(attempt, CY_MAX_ATTEMPTS)
                   THEN BOReturn(failed, "None")
                   ELSE failed
    /\ UNCHANGED OthersBO

BONext == BOCall \/ BOEmptyPage \/ BOAttempt

(***************************************************************************)
(* 山东 crawl_one_platsource, the detection of the total pages: the first   *)
(* page and one later page, each with a payload whose pagination fields    *)
(* are present or absent independently.                                    *)
(***************************************************************************)
\* every page-count field carries its own value, so the result tells which
\* field was read
DPPayloads ==
    {[top  |-> SDFields(p1, p2, p3, t2, Absent, Absent, Absent),
      data |-> SDFields(p4, p5, p6, t1, Absent, Absent, Absent)] :
        p1 \in {Absent, 0, 1}, p2 \in {Absent, 2}, p3 \in {Absent, 3},
        p4 \in {Absent, 4}, p5 \in {Absent, 5}, p6 \in {Absent, 6},
        t1 \in {Absent, 0, MaxTotal}, t2 \in {Absent, 3}}

DPInit ==
    \E S \in 1..MaxPageSize :
        dp = [pc |-> "first", size |-> S, total_pages |-> SDNone,
              \* history: the payload of the latest page and total_pages
              \* before that page
              payload |-> [top |-> SDNoFields, data |-> SDNoFields],
              prev |-> SDNone]

\* lines 142-144: `if total_pages is None: total_pages = _detect_total_pages(...)`
DPDetect(total_pages, payload, size) ==
    IF total_pages = SDNone THEN SDDetectTotalPages(payload, size) ELSE total_pages

\* the first turn of the while loop, lines 126-144
DPFirstPage ==
    /\ prog = "dp" /\ dp.pc = "first"
    /\ \E payload \in DPPayloads :
         dp' = [dp EXCEPT !.pc = "later", !.payload = payload,
                          !.prev = dp.total_pages,
                          !.total_pages = DPDetect(dp.total_pages, payload, dp.size)]
    /\ UNCHANGED OthersDP

\* a later turn of the while loop, lines 126-144
DPLaterPage ==
    /\ prog = "dp" /\ dp.pc = "later"
    /\ \E payload \in DPPayloads :
         dp' = [dp EXCEPT !.pc = "done", !.payload = payload,
                          !.prev = dp.total_pages,
                          !.total_pages = DPDetect(dp.total_pages, payload, dp.size)]
    /\ UNCHANGED OthersDP

DPNext == DPFirstPage \/ DPLaterPage

(***************************************************************************)
(* 合肥中心 scrape_all and 川渝 main run again after a run that reached the  *)
(* end of the source. The source does not change: pages 1..L hold records, *)
(* every later page is empty. No process is killed here.                   *)
(***************************************************************************)
RRInit ==
    \E f \in {"hf_scrape_all", "cy_main"}, L \in 0..MaxTotalPage, pg \in BOOLEAN :
        rr = [fn |-> f, pc |-> "start", L |-> L,
              \* result.pages of 合肥中心: absent (0) or the number of pages
              pages |-> IF pg /\ f = "hf_scrape_all" THEN L ELSE 0,
              \* next_page_no of crawl_progress.json / page of checkpoint.json,
              \* 0: no file
              ckpt |-> 0,
              page |-> 0, seen_empty |-> 0, rows |-> 0, run |-> 1,
              \* history: the checkpoint this run started from
              before |-> 0]

\* load_progress / load_checkpoint: 1 without a file; the CSV or JSONL of the
\* earlier run is appended to
RRStart ==
    /\ prog = "rr" /\ rr.pc = "start"
    /\ rr' = [rr EXCEPT !.pc = "loop", !.page = IF rr.ckpt >= 1 THEN rr.ckpt ELSE 1,
                        !.seen_empty = 0, !.rows = 0, !.before = rr.ckpt]
    /\ UNCHANGED OthersRR

\* scrape_all, lines 312-313: RuntimeError("No data fetched...") when the run
\* wrote no row
RRHFEnd(r) == [r EXCEPT !.pc = IF r.rows = 0 THEN "no_data" ELSE "done"]

\* iter_records, lines 200-252: one turn of the while loop (max_pages None)
RRHFPage ==
    /\ prog = "rr" /\ rr.fn = "hf_scrape_all" /\ rr.pc = "loop"
    /\ \E fetched \in BOOLEAN :
         LET empty == rr.page > rr.L
             seen  == IF empty THEN rr.seen_empty + 1 ELSE 0
             got   == [rr EXCEPT !.seen_empty = seen,
                                 !.rows = IF empty THEN @ ELSE @ + 1]
             saved == [got EXCEPT !.ckpt = HFNextPage(rr.page)]
         IN  rr' = IF ~fetched THEN [rr EXCEPT !.pc = "fetch_failed"]
                   ELSE IF empty /\ HFEmptyStop(seen) THEN RRHFEnd(got)
                   ELSE IF HFPagesStop(rr.pages, rr.page) THEN RRHFEnd(saved)
                   ELSE [saved EXCEPT !.page = @ + 1]
    /\ UNCHANGED OthersRR

\* 川渝 main, lines 240-280: one turn of the while loop; every goodsId of the
\* source is new in the first run
RRCYPage ==
    /\ prog = "rr" /\ rr.fn = "cy_main" /\ rr.pc = "loop"
    /\ \E fetched \in BOOLEAN :
         rr' = IF ~fetched
               THEN [rr EXCEPT !.pc = "fetch_failed", !.ckpt = CYFailCheckpoint(rr.page)]
               ELSE IF rr.page > rr.L
               THEN [rr EXCEPT !.pc = "done", !.ckpt = rr.page]
               ELSE [rr EXCEPT !.rows = @ + 1, !.ckpt = CYNextCheckpoint(rr.page),
                               !.page = @ + 1]
    /\ UNCHANGED OthersRR

\* the script is started again after a run that reached the end
RRAgain ==
    /\ prog = "rr" /\ rr.pc = "done" /\ rr.run < MaxRuns
    /\ rr' = [rr EXCEPT !.pc = "start", !.run = @ + 1, !.page = 0,
                        !.seen_empty = 0, !.rows = 0]
    /\ UNCHANGED OthersRR

RRNext == RRStart \/ RRHFPage \/ RRCYPage \/ RRAgain

(***************************************************************************)
(* The page loops of 甘肃 scrape_all, 河北 main, 江西 scrape_all and 合肥中心 *)
(* iter_records against a server that holds L pages of records and answers *)
(* every later page with an empty list. meta is the total-pages value the  *)
(* server reports (0: absent or zero); it need not be L.                   *)
(***************************************************************************)
TMFunctions == {"gs_scrape_all", "heb_main", "jx_scrape_all", "hf_iter_records"}

\* the requests one loop is followed for
TMRequestCap == 2 * MaxTotalPage + 4

\* a variant that asks for the same page again
TMSamePage(page_no) == page_no

\* page_no += 1 (甘肃 line 124, 河北 line 103, 合肥中心 line 251) and the step
\* of range(2, last_page + 1) (江西 line 126)
TMNextPage(page_no) == page_no + 1

TMInit ==
    \E f \in TMFunctions, L \in 0..MaxTotalPage, meta \in 0..(MaxTotalPage + 1) :
        /\ f \in {"gs_scrape_all", "heb_main"} => meta = 0
        /\ tm = [fn |-> f, pc |-> IF f = "jx_scrape_all" THEN "first" ELSE "loop",
                 L |-> L, meta |-> meta, page |-> 1, seen_empty |-> 0,
                 \* history: the page requests made
                 requests |-> 0]

\* 甘肃 scrape_all, lines 107-125: fetch_page raises on a failure, an empty
\* page ends the loop
TMGSPage ==
    /\ prog = "tm" /\ tm.fn = "gs_scrape_all" /\ tm.pc = "loop"
    /\ tm.requests < TMRequestCap
    /\ \E ok \in BOOLEAN :
         tm' = IF ~ok THEN [tm EXCEPT !.pc = "raised", !.requests = @ + 1]
               ELSE IF tm.page > tm.L THEN [tm EXCEPT !.pc = "done", !.requests = @ + 1]
               ELSE [tm EXCEPT !.page = TMNextPage(@), !.requests = @ + 1]
    /\ UNCHANGED OthersTM

\* 河北 main, lines 93-104: safe_json raises; a body without data gives no
\* records and ends the loop like an empty page
TMHEBPage ==
    /\ prog = "tm" /\ tm.fn = "heb_main" /\ tm.pc = "loop"
    /\ tm.requests < TMRequestCap
    /\ \E resp \in HEBResponses :
         tm' = IF HEBSafeJsonRaises(resp)
               THEN [tm EXCEPT !.pc = "raised", !.requests = @ + 1]
               ELSE IF resp = "business_failure" \/ tm.page > tm.L
               THEN [tm EXCEPT !.pc = "done", !.requests = @ + 1]
               ELSE [tm EXCEPT !.page = TMNextPage(@), !.requests = @ + 1]
    /\ UNCHANGED OthersTM

\* 江西 scrape_all, lines 106-119: page 1; an empty first page raises
TMJXFirst ==
    /\ prog = "tm" /\ tm.fn = "jx_scrape_all" /\ tm.pc = "first"
    /\ \E ok \in BOOLEAN :
         tm' = IF ~ok \/ tm.L = 0 THEN [tm EXCEPT !.pc = "raised", !.requests = @ + 1]
               ELSE [tm EXCEPT !.pc = "loop", !.page = 2, !.requests = @ + 1]
    /\ UNCHANGED OthersTM

\* 江西 scrape_all, lines 121-139: for page_no in range(2, last_page + 1) with
\* last_page = total_page, or 10**9 when total_page is not positive
TMJXPage ==
    /\ prog = "tm" /\ tm.fn = "jx_scrape_all" /\ tm.pc = "loop"
    /\ tm.requests < TMRequestCap
    /\ \E ok \in BOOLEAN :
         tm' = IF tm.meta > 0 /\ tm.page > tm.meta THEN [tm EXCEPT !.pc = "done"]
               ELSE IF ~ok THEN [tm EXCEPT !.pc = "raised", !.requests = @ + 1]
               ELSE IF tm.page > tm.L THEN [tm EXCEPT !.pc = "done", !.requests = @ + 1]
               ELSE [tm EXCEPT !.page = TMNextPage(@), !.requests = @ + 1]
    /\ UNCHANGED OthersTM

\* 合肥中心 iter_records, lines 201-252, max_pages None: one turn of the while
\* loop, the three attempts of a page taken as one request
TMHFPage ==
    /\ prog = "tm" /\ tm.fn = "hf_iter_records" /\ tm.pc = "loop"
    /\ tm.requests < TMRequestCap
    /\ \E ok \in BOOLEAN :
         LET empty == tm.page > tm.L
             seen  == IF empty THEN tm.seen_empty + 1 ELSE 0
             got   == [tm EXCEPT !.seen_empty = seen, !.requests = @ + 1]
         IN  tm' = IF ~ok THEN [tm EXCEPT !.pc = "raised", !.requests = @ + 1]
                   ELSE IF empty /\ HFEmptyStop(seen) THEN [got EXCEPT !.pc = "done"]
                   ELSE IF HFPagesStop(tm.meta, tm.page) THEN [got EXCEPT !.pc = "done"]
                   ELSE [got EXCEPT !.page = TMNextPage(@)]
    /\ UNCHANGED OthersTM

TMNext == TMGSPage \/ TMHEBPage \/ TMJXFirst \/ TMJXPage \/ TMHFPage

(***************************************************************************)
(* The page loops that take max_pages: 合肥中心 iter_records, 合肥数据流通   *)
(* scrape_all, 江苏 scrape_all, 福建 scrape_all, each called with max_pages  *)
(* set to m. The server holds L pages of records and reports meta total    *)
(* pages (0: no such field).                                               *)
(***************************************************************************)
MPFunctions == {"hf_iter_records", "hl_scrape_all", "js_scrape_all", "fj_scrape_all"}

\* 合肥中心 line 202, 合肥数据流通 line 130: the limit counted from start_page
MPOverLimit(page_no, start_page, max_pages) == (page_no - start_page + 1) > max_pages

MPInit ==
    \E f \in MPFunctions, m \in 0..MaxTotalPage, L \in 0..MaxTotalPage,
       meta \in 0..MaxTotalPage, sp \in 1..2 :
        \* 江苏 and 福建 always start at page 1; 福建 reads no total
        /\ f \in {"js_scrape_all", "fj_scrape_all"} => sp = 1
        /\ f = "fj_scrape_all" => meta = 0
        /\ mp = [fn |-> f, pc |-> IF f = "js_scrape_all" THEN "first" ELSE "loop",
                 max_pages |-> m, L |-> L, meta |-> meta, start_page |-> sp,
                 page |-> sp, seen_empty |-> 0,
                 \* history: the pages requested in this run
                 requested |-> {}]

\* 合肥中心 iter_records, lines 198-252: one turn of the while loop
MPHFPage ==
    /\ prog = "mp" /\ mp.fn = "hf_iter_records" /\ mp.pc = "loop"
    /\ \E ok \in BOOLEAN :
         LET empty == mp.page > mp.L
             seen  == IF empty THEN mp.seen_empty + 1 ELSE 0
             got   == [mp EXCEPT !.seen_empty = seen, !.requested = @ \cup {mp.page}]
         IN  mp' = IF MPOverLimit(mp.page, mp.start_page, mp.max_pages)
                   THEN [mp EXCEPT !.pc = "done"]
                   ELSE IF ~ok THEN [mp EXCEPT !.pc = "raised",
                                               !.requested = @ \cup {mp.page}]
                   ELSE IF empty /\ HFEmptyStop(seen) THEN [got EXCEPT !.pc = "done"]
                   ELSE IF HFPagesStop(mp.meta, mp.page) THEN [got EXCEPT !.pc = "done"]
                   ELSE [got EXCEPT !.page = @ + 1]
    /\ UNCHANGED OthersMP

\* 合肥数据流通 scrape_all, lines 129-168: one turn of the while loop;
\* total_pages is the pages field of the first answer that has one, and
\* enough stands for `len(all_rows) >= total_items`
MPHLPage ==
    /\ prog = "mp" /\ mp.fn = "hl_scrape_all" /\ mp.pc = "loop"
    /\ \E ok \in BOOLEAN, enough \in BOOLEAN :
         LET known == mp.requested # {} /\ mp.meta > 0
             got   == [mp EXCEPT !.requested = @ \cup {mp.page}]
         IN  mp' = IF MPOverLimit(mp.page, mp.start_page, mp.max_pages)
                   THEN [mp EXCEPT !.pc = "done"]
                   ELSE IF known /\ mp.page > mp.meta THEN [mp EXCEPT !.pc = "done"]
                   ELSE IF ~ok THEN [got EXCEPT !.pc = "raised"]
                   ELSE IF mp.page > mp.L THEN [got EXCEPT !.pc = "done"]
                   ELSE IF enough THEN [got EXCEPT !.pc = "done", !.page = @ + 1]
                   ELSE [got EXCEPT !.page = @ + 1]
    /\ UNCHANGED OthersMP

\* 福建 scrape_all, lines 116-141: one turn of the while loop
MPFJPage ==
    /\ prog = "mp" /\ mp.fn = "fj_scrape_all" /\ mp.pc = "loop"
    /\ \E ok \in BOOLEAN :
         LET got == [mp EXCEPT !.requested = @ \cup {mp.page}]
         IN  mp' = IF mp.page > mp.max_pages THEN [mp EXCEPT !.pc = "done"]
                   ELSE IF ~ok THEN [got EXCEPT !.pc = "raised"]
                   ELSE IF mp.page > mp.L THEN [got EXCEPT !.pc = "done"]
                   ELSE [got EXCEPT !.page = @ + 1]
    /\ UNCHANGED OthersMP

\* 江苏 scrape_all, lines 106-119: page 1 is requested before max_pages is
\* looked at; an empty first page raises
MPJSFirst ==
    /\ prog = "mp" /\ mp.fn = "js_scrape_all" /\ mp.pc = "first"
    /\ \E ok \in BOOLEAN :
         LET got == [mp EXCEPT !.requested = @ \cup {1}]
         IN  mp' = IF ~ok \/ mp.L = 0 THEN [got EXCEPT !.pc = "raised"]
                   ELSE [got EXCEPT !.pc = "loop", !.page = 2]
    /\ UNCHANGED OthersMP

\* 江苏 scrape_all, lines 121-126: last_page is total_page, or 10**9 without
\* it, cut down to max_pages; range(2, last_page + 1) is over at page_no
MPJSRangeOver(page_no, total_page, max_pages) ==
    IF total_page > 0 THEN page_no > Min(total_page, max_pages)
    ELSE page_no > max_pages

\* 江苏 scrape_all, lines 126-143: one turn of the for loop; enough stands for
\* `total_count and len(all_rows) >= total_count`
MPJSPage ==
    /\ prog = "mp" /\ mp.fn = "js_scrape_all" /\ mp.pc = "loop"
    /\ \E ok \in BOOLEAN, enough \in BOOLEAN :
         LET got == [mp EXCEPT !.requested = @ \cup {mp.page}]
         IN  mp' = IF MPJSRangeOver(mp.page, mp.meta, mp.max_pages)
                   THEN [mp EXCEPT !.pc = "done"]
                   ELSE IF ~ok THEN [got EXCEPT !.pc = "raised"]
                   ELSE IF mp.page > mp.L \/ enough THEN [got EXCEPT !.pc = "done"]
                   ELSE [got EXCEPT !.page = @ + 1]
    /\ UNCHANGED OthersMP

MPNext == MPHFPage \/ MPHLPage \/ MPFJPage \/ MPJSFirst \/ MPJSPage

(***************************************************************************)
(* Specifications                                                          *)
(***************************************************************************)
\* every script but the one named is idle
IdleBut(p) ==
    /\ prog = p
    /\ p # "cy" => cy = Off
    /\ p # "hb" => hb = Off
    /\ p # "hf" => hf = Off
    /\ p # "heb" => heb = Off
    /\ p # "nm" => nm = Off
    /\ p # "hn" => hn = Off
    /\ p # "bj" => bj = Off
    /\ p # "ha" => ha = Off
    /\ p # "sd" => sd = Off
    /\ p # "rq" => rq = Off
    /\ p # "sx" => sx = Off
    /\ p # "hi" => hi = Off
    /\ p # "sh" => sh = Off
    /\ p # "gs" => gs = Off
    /\ p # "gx" => gx = Off
    /\ p # "gz" => gz = Off
    /\ p # "tb" => tb = Off
    /\ p # "tg" => tg = Off
    /\ p # "ds" => ds = Off
    /\ p # "rs" => rs = Off
    /\ p # "nz" => nz = Off
    /\ p # "dk" => dk = Off
    /\ p # "fl" => fl = Off
    /\ p # "pl" => pl = Off
    /\ p # "dt" => dt = Off
    /\ p # "sl" => sl = Off
    /\ p # "bo" => bo = Off
    /\ p # "dp" => dp = Off
    /\ p # "rr" => rr = Off
    /\ p # "tm" => tm = Off
    /\ p # "mp" => mp = Off

InitCY == IdleBut("cy") /\ CYInit

SpecCY == InitCY /\ [][CYNext]_vars

InitHB == IdleBut("hb") /\ HBInit

SpecHB == InitHB /\ [][HBNext]_vars

InitHF == IdleBut("hf") /\ HFInit

SpecHF == InitHF /\ [][HFNext]_vars

InitHEB == IdleBut("heb") /\ HEBInit

SpecHEB == InitHEB /\ [][HEBNext]_vars

InitNM == IdleBut("nm") /\ NMInit

InitHN == IdleBut("hn") /\ HNInit

InitBJ == IdleBut("bj") /\ BJInit

InitHA == IdleBut("ha") /\ HAInit

InitSD == IdleBut("sd") /\ SDInit

SpecSD == InitSD /\ [][SDNext]_vars

\* the three page loops that stop on a short page, one of them running
SpecPaging == (InitBJ \/ InitHA \/ InitSD) /\ [][BJNext \/ HANext \/ SDNext]_vars

InitRQ == IdleBut("rq") /\ RQInit

\* the retry loops: one of the four functions, or 合肥中心 with the loop in
\* iter_records
SpecRetry == (InitRQ \/ InitHF) /\ [][RQNext \/ HFNext]_vars

InitSX == IdleBut("sx") /\ SXInit

InitHI == IdleBut("hi") /\ HIInit

\* 山西 and 海南, one of them running
SpecSXHI == (InitSX \/ InitHI) /\ [][SXNext \/ HINext]_vars

InitSH == IdleBut("sh") /\ SHInit

InitGS == IdleBut("gs") /\ GSInit

InitGX == IdleBut("gx") /\ GXInit

\* the crawls that write their output after the last page, one of them running
SpecCollect == (InitSH \/ InitGS \/ InitGX) /\ [][SHNext \/ GSNext \/ GXNext]_vars

InitGZ == IdleBut("gz") /\ GZInit

\* the crawls that append every page to a JSONL log, one of them running
SpecStream == (InitCY \/ InitGZ) /\ [][CYNext \/ GZNext]_vars

InitTB == IdleBut("tb") /\ TBInit

\* the three writers of the output table
SpecTable == InitTB /\ [][TBNext]_vars

InitTG == IdleBut("tg") /\ TGInit

\* the three tag summaries
SpecTags == InitTG /\ [][TGNext]_vars

InitDS == IdleBut("ds") /\ DSInit

\* one call of the classifier
SpecClassify == InitDS /\ [][DSNext]_vars

InitRS == IdleBut("rs") /\ RSInit

\* the three fetchers facing responses with status 200
SpecResponse == InitRS /\ [][RSNext]_vars

InitNZ == IdleBut("nz") /\ NZInit

\* the normalization of one page of records
SpecNormalize == InitNZ /\ [][NZNext]_vars

InitDK == IdleBut("dk") /\ DKInit

\* the three deduplications by key
SpecKey == InitDK /\ [][DKNext]_vars

InitFL == IdleBut("fl") /\ FLInit

\* one record value normalized under two key orders
SpecKeyOrder == InitFL /\ [][FLNext]_vars

InitTP == IdleBut("pl") /\ TPInit

InitDT == IdleBut("dt") /\ DTInit

\* the parallel steps: the two thread pools and the coroutines of get_date
SpecWorkers == (InitTP \/ InitDT) /\ [][TPNext \/ DTNext]_vars

\* the coroutines of get_date alone
SpecDetail == InitDT /\ [][DTNext]_vars

InitSL == IdleBut("sl") /\ SLInit

\* the three crawls that read the number of pages from page 1
SpecPoliteness == InitSL /\ [][SLNext]_vars

InitBO == IdleBut("bo") /\ BOInit

\* 川渝 post_page_robust under main's page loop
SpecBackoff == InitBO /\ [][BONext]_vars

InitDP == IdleBut("dp") /\ DPInit

\* 山东 total-pages detection over two pages
SpecDetect == InitDP /\ [][DPNext]_vars

InitRR == IdleBut("rr") /\ RRInit

\* 合肥中心 and 川渝 run again after completion
SpecRerun == InitRR /\ [][RRNext]_vars

InitTM == IdleBut("tm") /\ TMInit

\* the four page loops; a loop that can take a turn takes it
SpecTerminate == InitTM /\ [][TMNext]_vars /\ WF_vars(TMNext)

InitMP == IdleBut("mp") /\ MPInit

\* the four loops that take max_pages
SpecMaxPages == InitMP /\ [][MPNext]_vars

\* 湖北 get_date.py under a scheduler that lets every ready step run
SpecDetailFair == InitDT /\ [][DTNext]_vars /\ WF_vars(DTNext)

\* the three crawls that deduplicate on a natural id, one of them running
SpecDedup == (InitNM \/ InitHN \/ InitCY) /\ [][NMNext \/ HNNext \/ CYNext]_vars

(***************************************************************************)
(* Properties                                                              *)
(***************************************************************************)
\* the complete lines of the 川渝 log that carry a goodsId
CYIdLines(jsonl) ==
    {i \in 1..Len(jsonl) : jsonl[i].st = "ok" /\ jsonl[i].goodsId # NoId}

\* C1: across the runs of a resumable crawler (川渝 main, 湖北 main), kills and
\* restarts included, a row identity (goodsId; detail_url or the (title, org)
\* key) that was written to the incremental log once is never written to it
\* again: the log holds no identity twice.
C1_IdentityLoggedOnce ==
    /\ prog = "cy" =>
         \A i, j \in CYIdLines(cy.jsonl) :
            i # j => cy.jsonl[i].goodsId # cy.jsonl[j].goodsId
    /\ prog = "hb" =>
         \A i, j \in 1..Len(hb.jl) : i # j => HBKey(hb.jl[i]) # HBKey(hb.jl[j])

\* the rows one uninterrupted iter_records run yields from page p on
RECURSIVE HFUninterrupted(_, _, _, _)
HFUninterrupted(src, pages, p, seen_empty) ==
    IF HFRecords(src, p) = 0
    THEN IF HFEmptyStop(seen_empty + 1) \/ HFPagesStop(pages, p) THEN {}
         ELSE HFUninterrupted(src, pages, p + 1, seen_empty + 1)
    ELSE {HFRow(p, i) : i \in 1..HFRecords(src, p)}
         \cup (IF HFPagesStop(pages, p) THEN {}
               ELSE HFUninterrupted(src, pages, p + 1, 0))

\* C2: resume idempotence: when every interruption came after the checkpoint
\* of some page k was taken and the crawl was restarted from that checkpoint,
\* the rows of all runs together, as a set, are the rows of one uninterrupted
\* run over the same source.
C2_ResumeIdempotent ==
    prog = "hf" /\ hf.pc \in {"done", "no_data"} /\ hf.cleanKills =>
        HFDataRows(hf.csv) = HFUninterrupted(hf.src, hf.pages, 1, 0)

\* C3: a checkpoint save is atomic: a process killed during a save leaves the
\* previous checkpoint or the new one on disk, never an empty or cut file.
C3_AtomicSave ==
    /\ prog = "cy" /\ cy.pc = "dead" => cy.ckpt.st \in {"absent", "ok"}
    /\ prog = "hb" /\ hb.pc = "dead" => hb.ckpt.st \in {"absent", "ok"}
    /\ prog = "hf" /\ hf.pc = "dead" => hf.progress.st \in {"absent", "ok"}

\* the page of the 川渝 source that record number pos is served on
CYPageOfPos(pos) == ((pos - 1) \div CYPageSize) + 1

\* C4: the checkpoint never runs ahead of the durable output: whenever the
\* checkpoint on disk names page p+1, every row this run emitted from the
\* pages up to p is in the output file on disk.
C4_CheckpointBehindOutput ==
    /\ prog = "hf" /\ hf.progress.st = "ok" =>
         \A row \in hf.emitted :
            row[1] < hf.progress.next_page_no => row \in HFDataRows(hf.csv)
    /\ prog = "cy" /\ cy.pc # "off" /\ cy.ckpt.st = "ok" =>
         \A i \in 1..Len(cy.emitted) :
            CYPageOfPos(cy.emitted[i].pos) < cy.ckpt.page =>
                \E j \in 1..Len(cy.jsonl) : cy.jsonl[j].pos = cy.emitted[i].pos

\* C5: when all retry attempts for page p fail the crawl ends as failed: no
\* page after p was requested, the checkpoint on disk names p as the next
\* page (not p+1), and every row that was persisted is still in the output.
C5_FailedPageKeepsCheckpoint ==
    /\ prog = "cy" /\ cy.pc \in {"csv", "exit"} /\ cy.failedAt # 0 =>
         /\ cy.ckpt = [st |-> "ok", page |-> cy.failedAt]
         /\ \A q \in cy.fetched : q <= cy.failedAt
         /\ cy.durable \subseteq CYOkPos(cy.jsonl)
    /\ prog = "hf" /\ hf.pc = "failed" =>
         /\ HFLoadProgress(hf.progress) = hf.failedAt
         /\ \A q \in hf.fetched : q <= hf.failedAt
         /\ hf.durable \subseteq HFDataRows(hf.csv)

\* C5 witness: 合肥中心 gave up on a page after the first one, with rows of the
\* earlier pages written
C5_Witness ==
    prog = "hf" /\ hf.pc = "failed" /\ hf.failedAt >= 2 /\ hf.durable # {}

InitCYHF == \/ InitCY
            \/ InitHF

\* 川渝 and 合肥中心, one of them running
SpecCYHF == InitCYHF /\ [][CYNext \/ HFNext]_vars

\* C6: a page response with HTTP 200 whose body declares a failure raises an
\* error: it yields no rows, is not taken for an empty or last page, and does
\* not advance the checkpoint. 合肥中心: the crawl gives up with the progress
\* file not past the page; 河北: the list loop raises.
C6_BusinessFailureRaises ==
    /\ prog = "hf" /\ hf.last_err = "success_false" =>
         /\ hf.pc \in {"closing", "failed"} /\ hf.outcome = "raised"
         /\ HFLoadProgress(hf.progress) <= hf.failedAt
         /\ \A row \in hf.emitted : row[1] < hf.failedAt
    /\ prog = "heb" /\ heb.lastResp = "business_failure" => heb.pc = "raised"

\* 合肥中心 and 河北, one of them running
SpecHFHEB == (InitHF \/ InitHEB) /\ [][HFNext \/ HEBNext]_vars

\* entry i of the identities ids is the first that carries its (non-empty)
\* identity
FirstOfId(ids, i) ==
    /\ ids[i] # NoId
    /\ \A j \in 1..(i - 1) : ids[j] # ids[i]

\* no non-empty identity occurs twice in ids
OnePerId(ids) ==
    \A i, j \in 1..Len(ids) : i # j /\ ids[i] # NoId => ids[i] # ids[j]

\* the records of seq that carry an identity, by their position in the source
WithId(seq, ids) == {seq[i].pos : i \in {k \in 1..Len(seq) : ids[k] # NoId}}

\* the identities of a sequence of 内蒙古, 湖南, 川渝 records
NMPids(seq) == [i \in 1..Len(seq) |-> NMPid(seq[i])]

HNPids(seq) == [i \in 1..Len(seq) |-> HNPid(seq[i].id)]

CYGoodsIds(seq) == [i \in 1..Len(seq) |-> seq[i].goodsId]

\* C7: within one crawl the dedup check lets through the first record that
\* carries a non-empty identity and rejects every later record carrying it,
\* over all pages and categories, so the output holds at most one row per
\* identity (内蒙古 crawl_all, 湖南 main, 川渝 main with the seen set it
\* loaded at start).
C7_DedupFirstOnly ==
    /\ prog = "nm" =>
         /\ WithId(nm.rows, NMPids(nm.rows)) =
              {nm.processed[i].pos :
                  i \in {k \in 1..Len(nm.processed) :
                            FirstOfId(NMPids(nm.processed), k)}}
         /\ OnePerId(NMPids(nm.rows))
    /\ prog = "hn" =>
         /\ WithId(hn.admitted, HNPids(hn.admitted)) =
              {hn.processed[i].pos :
                  i \in {k \in 1..Len(hn.processed) :
                            FirstOfId(HNPids(hn.processed), k)}}
         /\ OnePerId(HNPids(hn.admitted))
         /\ \A i \in 1..Len(hn.out_rows) :
               \E j \in 1..Len(hn.admitted) : hn.out_rows[i] = hn.admitted[j]
         /\ OnePerId(HNPids(hn.out_rows))
    /\ prog = "cy" /\ cy.pc \notin {"dead", "start"} =>
         /\ WithId(cy.emitted, CYGoodsIds(cy.emitted)) =
              {cy.processed[i].pos :
                  i \in {k \in 1..Len(cy.processed) :
                            /\ FirstOfId(CYGoodsIds(cy.processed), k)
                            /\ cy.processed[k].goodsId \notin cy.seen0}}
         /\ OnePerId(CYGoodsIds(cy.emitted))
         /\ OnePerId(CYGoodsIds(cy.csv))

\* C7 witness: 内蒙古 finished a crawl in which a later record carried an
\* identity already seen, in another scene type, and was rejected
C7_Witness ==
    /\ prog = "nm" /\ nm.pc = "done" /\ nm.cut >= 1
    /\ \E i \in 1..nm.cut, j \in (nm.cut + 1)..Len(nm.processed) :
          /\ NMPid(nm.processed[i]) # NoId
          /\ NMPid(nm.processed[i]) = NMPid(nm.processed[j])
          /\ nm.processed[j].pos \notin WithId(nm.rows, NMPids(nm.rows))

\* C8: with no total known, a source of T records served in pages of size S,
\* T not a multiple of S: the loop makes exactly ceil(T/S) requests and stops
\* on the short last page (北京, 河南, 山东 crawl loops).
C8_StopsOnShortLastPage ==
    /\ prog = "bj" /\ bj.pc = "done" /\ bj.T % bj.page_size # 0 =>
         /\ bj.requests = CeilDiv(bj.T, bj.page_size)
         /\ bj.page_num = bj.requests
         /\ bj.lastN = bj.T % bj.page_size
         /\ bj.all_rows = bj.T
    /\ prog = "ha" /\ ha.pc \in {"done", "saved"} /\ ha.T % ha.page_size # 0 =>
         /\ ha.requests = CeilDiv(ha.T, ha.page_size)
         /\ ha.page = ha.requests
         /\ ha.lastN = ha.T % ha.page_size
         /\ ha.all_rows = ha.T
    /\ prog = "sd" /\ sd.pc = "done" /\ sd.total_pages = SDNone
                   /\ sd.T % sd.size # 0 =>
         /\ sd.requests = CeilDiv(sd.T, sd.size)
         /\ sd.page = sd.requests
         /\ sd.lastN = sd.T % sd.size
         /\ sd.all_items = sd.T

\* C8 witness: 北京, pages of 2 and 5 records: 3 requests, stopped on page 3
C8_Witness ==
    /\ prog = "bj" /\ bj.pc = "done" /\ bj.T = 5 /\ bj.page_size = 2
    /\ bj.requests = 3 /\ bj.page_num = 3 /\ bj.lastN = 1

\* C9: after each fetched page the 山东 loop is finished, and makes no further
\* request, exactly when (a) a known total-pages value is reached, (b) the
\* page is empty or (c) the page holds fewer records than the requested size;
\* otherwise, a full page included, it goes on to the next page.
C9_ExhaustedExactlyWhen ==
    prog = "sd" /\ sd.pc \in {"loop", "done"} /\ sd.requests > 0 =>
        LET reached == sd.total_pages # SDNone /\ sd.lastPage >= sd.total_pages
            empty   == sd.lastN = 0
            short   == sd.lastN < sd.size
        IN  /\ sd.pc = "done" <=> (reached \/ empty \/ short)
            /\ sd.pc = "done" => sd.page = sd.lastPage /\ sd.requests = sd.lastPage
            /\ sd.pc = "loop" => sd.page = sd.lastPage + 1 /\ sd.lastN = sd.size

\* C9 witness: a full page with the total pages not reached, the loop goes on
C9_Witness ==
    /\ prog = "sd" /\ sd.pc = "loop" /\ sd.requests >= 2
    /\ sd.lastN = sd.size /\ sd.total_pages > sd.lastPage

\* the page iter_records fetched last in this run
HFLastPage == hf.start_page + Len(hf.trace) - 1

\* the trace of this run ends with an empty page that came after a non-empty
\* page or first, and the page after it holds records
HFSingleEmptyBeforeRows ==
    LET n == Len(hf.trace)
    IN  /\ n >= 1 /\ hf.trace[n] = 0
        /\ n >= 2 => hf.trace[n - 1] > 0
        /\ HFRecords(hf.src, HFLastPage + 1) > 0

\* iter_records ends on the second of two empty pages in a row, not later
C10_EndsOnSecondEmpty ==
    LET n == Len(hf.trace)
    IN  /\ \A i \in 1..(n - 2) : ~(hf.trace[i] = 0 /\ hf.trace[i + 1] = 0)
        /\ n >= 2 /\ hf.trace[n] = 0 /\ hf.trace[n - 1] = 0 /\ hf.pc # "page" =>
              /\ hf.outcome = "done" /\ hf.pc \in {"closing", "done", "no_data"}
              /\ hf.seen_empty = 2

\* after a single empty page the rows of a following non-empty page are
\* emitted and the counter of empty pages is back at 0
C10_ResetAndEmit ==
    LET n == Len(hf.trace)
    IN  n >= 2 /\ hf.trace[n] > 0 /\ hf.trace[n - 1] = 0 /\ hf.pc # "page" =>
            /\ hf.seen_empty = 0
            /\ hf.pc # "rows" =>
                 \A i \in 1..hf.trace[n] : HFRow(HFLastPage, i) \in hf.emitted

\* C10 as stated: iter_records ends the crawl on the second of two
\* consecutive empty pages; a single empty page followed by a non-empty page
\* does not end the crawl, the counter is reset and the later rows emitted.
C10_SingleEmptyNeverEnds ==
    prog = "hf" /\ hf.pc \notin {"dead", "start"} =>
        /\ C10_EndsOnSecondEmpty
        /\ HFSingleEmptyBeforeRows /\ hf.pc # "page" => hf.outcome # "done"
        /\ C10_ResetAndEmit

\* C10 amended: as stated, except that a single empty page does end the crawl
\* when the pages field of its response is positive and not above the page
\* number.
C10_SingleEmptyEndsOnlyByPages ==
    prog = "hf" /\ hf.pc \notin {"dead", "start"} =>
        /\ C10_EndsOnSecondEmpty
        /\ HFSingleEmptyBeforeRows /\ hf.pc # "page"
             /\ ~(hf.pages > 0 /\ HFLastPage >= hf.pages) => hf.outcome # "done"
        /\ C10_ResetAndEmit

\* C10 witness: a run that met one empty page, then a page with rows which
\* it emitted, and later ended on two empty pages in a row
C10_Witness ==
    LET n == Len(hf.trace)
    IN  /\ prog = "hf" /\ hf.pc = "done" /\ n = 4
        /\ hf.trace[1] = 0 /\ hf.trace[2] > 0 /\ hf.trace[3] = 0 /\ hf.trace[4] = 0
        /\ HFRow(2, 1) \in hf.emitted

\* C11: loading a checkpoint never fails: with the checkpoint file absent,
\* unreadable or not valid JSON the load gives page 1 (and an empty seen set)
\* and the crawl starts from page 1 instead of raising (川渝 load_checkpoint,
\* 合肥中心 load_progress, 湖北 load_checkpoint and the start of main).
C11_LoadNeverFails ==
    /\ prog = "cy" /\ cy.pc = "loop" /\ cy.fetched = {} /\ cy.ckpt.st # "ok" =>
         cy.page = 1
    /\ prog = "hf" /\ hf.pc = "top" /\ hf.fetched = {} /\ hf.progress.st # "ok" =>
         hf.page_no = 1
    /\ prog = "hb" => ~(hb.pc = "crashed" /\ hb.cur = 0)
    /\ prog = "hb" /\ hb.pc = "forward" /\ hb.ckpt.st # "ok" =>
         hb.page_index = 1 /\ hb.seen = {}

\* C12: checkpoint round trip: right after a save, loading the checkpoint
\* file gives the checkpoint that was saved (next page >= 1, seen set with
\* the (title, org) fallback keys included), and the crawl can continue from
\* it (合肥中心 save_progress / load_progress, 湖北 save_checkpoint /
\* load_checkpoint).
C12_CheckpointRoundTrip ==
    /\ prog = "hf" /\ hf.pc = "pages_check" =>
         HFLoadProgress(hf.progress) = HFNextPage(hf.page_no)
    /\ prog = "hb" /\ hb.pc = "next" =>
         /\ HBLoadable(hb.ckpt)
         /\ hb.ckpt.page_index = HBNextCheckpoint(hb.page_index)
         /\ hb.ckpt.seen_keys = hb.seen

\* C13: fetching one page makes at most a fixed number of attempts (3 in
\* 合肥中心 iter_records, 5 in 天津 post_with_retry, 8 in 川渝
\* post_page_robust, 4 in 山东 _request_json) and then ends with the page data
\* or a surfaced failure, whatever the server answers: while the loop runs
\* fewer attempts than the limit were made, and a call that ended without data
\* made exactly the limit.
C13_BoundedAttempts ==
    /\ prog = "rq" =>
         /\ rq.attempt <= RQMax(rq.fn)
         /\ rq.pc = "loop" => rq.attempt < RQMax(rq.fn)
         /\ rq.pc # "loop" => rq.result \in {"data", "failure_body", "None", "RuntimeError"}
         /\ rq.result \in {"None", "RuntimeError"} => rq.attempt = RQMax(rq.fn)
         /\ RQMax("post_page_robust") = 8 /\ RQMax("post_with_retry") = 5
         /\ RQMax("_request_json") = 4
    /\ prog = "hf" =>
         /\ hf.attempt <= 3
         /\ hf.outcome = "raised" => hf.attempt = 3 /\ hf.pc \in {"closing", "failed"}

\* C13 witness: post_page_robust gave up after 8 failed attempts
C13_Witness ==
    /\ prog = "rq" /\ rq.fn = "post_page_robust" /\ rq.pc = "returned"
    /\ rq.result = "None" /\ rq.attempt = 8

\* C14: a page that still fails after its retries (failure code in the body,
\* or a fetch error) is fatal for the crawl at that page: the crawl never
\* leaves the failed page out and goes on, so a finished output holds the rows
\* of every page 1..totalPage (山西 crawl_all, 海南 crawl_all).
C14_FailedPageIsFatal ==
    /\ prog = "sx" =>
         /\ sx.skipped = {}
         /\ sx.pc = "saved" => sx.out = 1..sx.total_page
    /\ prog = "hi" =>
         /\ hi.skipped = {}
         /\ hi.pc = "saved" => hi.out = 1..hi.total_page

\* C15: when the fetch of a page p > 1 fails for good, the rows collected
\* from the pages 1..p-1 are in the output on disk after the crawl has halted
\* (上海 crawl_all_to_csv, 甘肃 scrape_all, 广西 crawl_all).
C15_CollectedRowsKept ==
    /\ prog = "sh" /\ sh.pc = "raised" /\ sh.p > 1 /\ sh.p <= sh.total_page =>
         sh.csv.written /\ 1..(sh.p - 1) \subseteq sh.csv.rows
    /\ prog = "gs" /\ gs.pc = "raised" /\ gs.page_no > 1 /\ gs.all_rows # {} =>
         gs.csv.written /\ 1..(gs.page_no - 1) \subseteq gs.csv.rows
    /\ prog = "gx" /\ gx.pc = "raised" /\ gx.page > 1 =>
         gx.csv.written /\ 1..(gx.page - 1) \subseteq gx.csv.rows

\* the records (by position in the source) of a sequence of items
PosOf(items) == {items[i].pos : i \in 1..Len(items)}

\* C16: with the rows appended to the log page by page, whatever the kill
\* points (the middle of an append included): the rows of an append that
\* completed are complete lines of the log, complete lines never disappear,
\* the consolidation pass puts every one of them in the final table, and a
\* cut line never makes the consolidation pass fail (川渝 append_jsonl and
\* main, 贵州 main).
C16_AppendedRowsSurvive ==
    /\ prog = "cy" /\ cy.pc \in {"save_open", "save_write"} /\ cy.after = "next" =>
         PosOf(cy.new_items) \subseteq CYOkPos(cy.jsonl)
    /\ prog = "cy" /\ cy.pc # "off" => cy.durable \subseteq CYOkPos(cy.jsonl)
    /\ prog = "cy" /\ cy.pc = "exit" => CYOkPos(cy.jsonl) = PosOf(cy.csv)
    /\ prog = "gz" => gz.appended \subseteq CYOkPos(gz.jsonl)
    /\ prog = "gz" => gz.pc # "consolidate_failed"
    /\ prog = "gz" /\ gz.pc = "saved" => gz.appended \subseteq PosOf(gz.csv)

\* C17: when the table is complete its header is the union of the keys of
\* all rows emitted during the crawl (keys first seen in a later row and rows
\* appended after a resume included), every value sits under its own column
\* name, and a column a row lacks is empty for that row (合肥中心 scrape_all,
\* 川渝 write_csv, 河南 save_csv).
C17_HeaderIsUnion ==
    prog = "tb" /\ tb.pc \in {"written", "done"} =>
        /\ KeysOf(tb.header) = UnionKeys(tb.rows)
        /\ Len(tb.lines) = Len(tb.rows)
        /\ \A i \in 1..Len(tb.lines) :
             /\ Len(tb.lines[i]) = Len(tb.header)
             /\ \A j \in 1..Len(tb.header) :
                  tb.lines[i][j] = IF tb.header[j] \in KeysOf(tb.rows[i])
                                   THEN tb.header[j] ELSE 0

\* the distinct non-empty elements of a sequence, in order of first occurrence
RECURSIVE DistinctNonEmpty(_)
DistinctNonEmpty(seq) ==
    IF seq = <<>> THEN <<>>
    ELSE LET init == DistinctNonEmpty(SubSeq(seq, 1, Len(seq) - 1))
             x == seq[Len(seq)]
         IN  IF x = 0 \/ \E i \in 1..Len(init) : init[i] = x
             THEN init ELSE Append(init, x)

\* C18: for every list of tags the tag summary is the '|'-joined sequence of
\* the distinct non-empty tags in order of first occurrence (安徽
\* _flatten_product_tags, 山西 flatten_product_tags, 上海 normalize_item).
C18_TagSummaryDistinctOrdered ==
    prog = "tg" /\ tg.pc = "done" =>
        tg.summary = DistinctNonEmpty(TagNames(tg.tags))

\* C19: whatever the outcomes of the attempts (exception, empty content, text
\* that is not JSON, JSON that is not an object, label outside the set),
\* call_deepseek_json makes at most max_retries attempts, ends by returning,
\* the mapped_category it returns is one of TARGET_CATEGORIES, and it is the
\* fallback label when no attempt gave a label of the set.
C19_AlwaysEnumeratedLabel ==
    prog = "ds" =>
        /\ ds.pc \in {"loop", "returned"}
        /\ ds.attempt <= DS_MAX_RETRIES
        /\ ds.pc = "loop" => ds.attempt < DS_MAX_RETRIES
        /\ ds.pc = "returned" =>
             /\ ds.mapped_category \in TARGET_CATEGORIES
             /\ (\A i \in 1..Len(ds.outcomes) :
                     ds.outcomes[i].label \notin TARGET_CATEGORIES)
                  => ds.mapped_category = "other_unclassifiable"
             /\ ds.mapped_category # "other_unclassifiable"
                  => Last(ds.outcomes).label = ds.mapped_category

\* C19: a call whose five attempts all failed, and one that was answered a
\* label outside the set, have returned
C19_Witness ==
    /\ prog = "ds" /\ ds.pc = "returned"
    /\ \/ ds.attempt = DS_MAX_RETRIES /\ Last(ds.outcomes).kind = "not_json"
       \/ Last(ds.outcomes).label = "outside"

\* C20: on HTTP 401/403 the fetcher retries a bounded number of times, and
\* when the attempts are exhausted what it hands to the crawl loop (the value
\* returned or the error raised, with the error text it carries) tells a call
\* that met only 401/403 from a call that met none (川渝 post_page_robust,
\* 河南 request_page).
C20_BlockedIsDistinguishable ==
    prog = "rq" /\ rq.fn \in {"post_page_robust", "request_page"} =>
        /\ rq.attempt <= RQMax(rq.fn)
        /\ rq.result \in {"None", "RuntimeError"} =>
             /\ rq.kinds = {"http_401_403"} => rq.last_err = "http_401_403"
             /\ "http_401_403" \notin rq.kinds => rq.last_err # "http_401_403"

\* C21: a response with a 2xx status whose content type is not a JSON media
\* type, or whose body is an HTML document, is raised or retried: none of the
\* responses whose records reached the output is one, and the checkpoint
\* never passes a page that gave no records (合肥中心 is_likely_blocked,
\* 合肥数据流通 ensure_json_response, 川渝 post_page_robust).
C21_NonJsonIsFailure ==
    prog = "rs" =>
        /\ \A resp \in rs.accepted : RSJsonMedia(resp.ct) /\ resp.body # "html"
        /\ rs.out = 1..(rs.page - 1)
        /\ rs.ckpt <= rs.page
        /\ \A resp \in RSResponses :
             ~RSJsonMedia(resp.ct) \/ resp.body = "html" =>
                 /\ HFFetchPageResult(resp) = "raise"
                 /\ HLEnsureJsonResponse(resp) = "raise"
                 /\ CYPostResult(resp) = "retry"

\* C21: 川渝 gave up a page after eight failed attempts and left the checkpoint
\* on that page, an earlier page having been accepted
C21_Witness ==
    /\ prog = "rs" /\ rs.fn = "post_page_robust" /\ rs.pc = "stopped"
    /\ rs.page = 2 /\ rs.ckpt = 2 /\ rs.out = {1}

\* C22: a malformed record inside a page never ends the page with an error:
\* normalization does not raise, and every well-formed record of the page is
\* emitted (内蒙古 flatten_record and consume, 山西 flatten_product_tags).
C22_MalformedRecordIsolated ==
    prog = "nz" =>
        /\ nz.pc # "raised"
        /\ nz.pc = "done" =>
             \A k \in 1..Len(nz.recs) : nz.recs[k] = "good" => k \in nz.rows

\* the identity of a row: its id when present and not empty, else its whole
\* content
RowIdentity(r) == IF r.id \notin {"none", ""} THEN <<"id", r.id>> ELSE <<"row", r>>

\* C23: a row's identity is its id when present and non-empty, otherwise its
\* whole content: after deduplication every input row has a row of its
\* identity in the output (none is dropped for lacking an id) and no two
\* output rows have the same identity (none is exempt) (山东 main, 广东
\* dedup_key and main, 川渝 main).
C23_IdentityIdOrContent ==
    prog = "dk" /\ dk.pc = "done" =>
        /\ \A k \in 1..Len(dk.rows) : \E j \in 1..Len(dk.out) :
               RowIdentity(dk.out[j]) = RowIdentity(dk.rows[k])
        /\ \A i, j \in 1..Len(dk.out) :
               RowIdentity(dk.out[i]) = RowIdentity(dk.out[j]) => i = j

\* C24: normalization does not depend on key order: two records equal as
\* values, whatever the order of their keys at the top level or inside a
\* nested object, give the same flat row and the same content identity
\* (合肥中心 flatten_record, 山东 main).
C24_KeyOrderIndependent ==
    prog = "fl" /\ fl.pc = "done" => fl.res_a = fl.res_b

\* the browser page a worker of get_date works with: worker opens a context
\* and a page of its own (get_date.py lines 202-203)
DTPageOf(k) == [owner |-> "worker", id |-> k]

\* C25: in the parallel step no session, client or page object is used by two
\* workers: two tasks running at the same time work with different objects
\* (河北 cl1.py worker, 数据清洗 worker_task, 湖北 get_date.py worker).
C25_OwnSessionPerWorker ==
    /\ prog = "pl" =>
         \A t1, t2 \in 1..pl.n :
             t1 # t2 /\ pl.fut[t1] = "running" /\ pl.fut[t2] = "running"
                 => pl.sess[t1] # pl.sess[t2]
    /\ prog = "dt" =>
         \A k1, k2 \in 1..DT_CONCURRENCY : k1 # k2 => DTPageOf(k1) # DTPageOf(k2)

\* the rows whose record is in the incremental log
DTLogged == {dt.jl[i].row_idx : i \in 1..Len(dt.jl)}

\* C26: results reach the result map, the log and the checkpoint through one
\* point: at most one worker is inside the block that writes them, the result
\* map of a thread pool holds exactly the results the main thread collected,
\* and the saved checkpoint holds exactly the rows whose record is in the log,
\* the row being saved excepted (湖北 get_date.py worker, 河北 cl1.py main,
\* 数据清洗 main).
C26_SingleWritePoint ==
    /\ prog = "pl" =>
         {t \in 1..pl.n : pl.map[t] # NoResult} = {pl.done[i] : i \in 1..Len(pl.done)}
    /\ prog = "dt" =>
         /\ Cardinality({k \in 1..DT_CONCURRENCY :
                            dt.w[k].pc \in {"record", "append", "save"}}) <= 1
         /\ {t \in 1..dt.n : dt.ckpt[t] # -1}
              \cup {dt.w[k].item : k \in {j \in 1..DT_CONCURRENCY : dt.w[j].pc = "save"}}
                = DTLogged

\* C26: a worker has appended its record and is about to save the checkpoint
\* while the other worker is inside process_one
C26_Witness ==
    /\ prog = "dt" /\ Len(dt.jl) >= 1
    /\ \E k1, k2 \in 1..DT_CONCURRENCY :
         dt.w[k1].pc = "save" /\ dt.w[k2].pc = "process"

\* C27: the output does not depend on the order of completion: every row or
\* uid gets the result of its own task, every task is taken once, and the
\* output is in input order (河北 cl1.py main, 数据清洗 main, 湖北 get_date.py
\* main).
C27_OutputIndependentOfOrder ==
    /\ prog = "pl" =>
         /\ \A i, j \in 1..Len(pl.done) : pl.done[i] = pl.done[j] => i = j
         /\ pl.pc = "written" =>
              /\ Len(pl.out) = pl.n
              /\ \A i \in 1..pl.n : pl.out[i] = pl.res[i] /\ pl.out[i].task = i
    /\ prog = "dt" =>
         /\ \A i, j \in 1..Len(dt.taken) : dt.taken[i] = dt.taken[j] => i = j
         /\ dt.pc = "saved" =>
              /\ Len(dt.out) = dt.n
              /\ {dt.taken[i] : i \in 1..Len(dt.taken)} = dt.queued
              /\ \A i \in 1..dt.n : dt.out[i] = dt.own[i] /\ dt.out[i] \in {0, i}

\* C27: the output of 数据清洗 is written after the tasks completed in an
\* order that is not the order of the input
C27_Witness ==
    /\ prog = "pl" /\ pl.fn = "tag_main" /\ pl.pc = "written"
    /\ \E i, j \in 1..Len(pl.done) : i < j /\ pl.done[i] > pl.done[j]

\* C28: a row whose task ended in failure is not marked done: on the next run
\* every row the loaded checkpoint holds without a date is queued again
\* (湖北 get_date.py process_one, worker, main).
C28_FailedTaskQueuedAgain ==
    prog = "dt" /\ dt.pc # "start" =>
        \A t \in 1..dt.n : dt.loaded[t] = 0 => t \in dt.queued

\* C29: between every two consecutive page requests of a crawl, the first and
\* the second page and a skipped page included, a sleep is executed: no two
\* requests follow each other directly (山西 crawl_all, 江苏 scrape_all,
\* 青岛大数据 scrape_all).
C29_SleepBetweenFetches ==
    prog = "sl" =>
        \A i \in 1..(Len(sl.events) - 1) :
            ~(sl.events[i] = "fetch" /\ sl.events[i + 1] = "fetch")

\* C30: with a total-pages value known, a non-empty page shorter than the page
\* size that was fetched before that total is reached does not end the crawl
C30_ShortPageOnlyFallback ==
    prog = "sd" /\ sd.requests > 0 /\ sd.pc \in {"loop", "done"} =>
        (sd.total_pages # SDNone /\ sd.lastPage < sd.total_pages
            /\ sd.lastN > 0 /\ sd.lastN < sd.size
         => sd.pc # "done")

\* C31: after HTTP 429 with a Retry-After of r seconds the wait is at least r;
\* with the header absent or not a number of seconds the wait is the
\* exponential of the attempt plus the jitter, capped at 90 seconds, so its
\* lower bound does not shrink from one attempt to the next; either way the
\* attempt is one of the at most max_attempts turns of the loop
C31_RetryAfterHonoured ==
    prog = "bo" /\ bo.last.attempt > 0 =>
        LET a == bo.last.attempt
            floor(k) == IF Pow18ms(k) + 1000 < 90000 THEN Pow18ms(k) + 1000 ELSE 90000
        IN  /\ bo.last.ra \in 0..MaxRetryAfter => bo.last.wait >= bo.last.ra * 1000
            /\ bo.last.ra \in {Absent, NotDigits} =>
                   /\ bo.last.wait >= floor(a) /\ bo.last.wait <= 90000
                   /\ a > 1 => floor(a) >= floor(a - 1)
                   /\ floor(a) > 1000
            /\ a <= bo.attempt /\ bo.n429 <= bo.attempt
            /\ bo.attempt <= CY_MAX_ATTEMPTS

\* C31 witness: the second attempt met a 429 whose Retry-After is beyond the
\* backoff of that attempt, and was waited for in full
C31_Witness ==
    /\ prog = "bo" /\ bo.n429 >= 2
    /\ bo.last.ra = MaxRetryAfter /\ bo.last.wait >= MaxRetryAfter * 1000
    /\ bo.last.attempt = 2

\* C32: after post_page_robust returns, main's session is an open one and is
\* the session built last, so a session rebuilt inside the fetch serves the
\* following pages
C32_CallerSessionOpenAndCurrent ==
    prog = "bo" /\ bo.calls > 0 /\ bo.local = 0 =>
        bo.session \in bo.live /\ bo.session = bo.made

\* C33: _detect_total_pages returns the first positive value among pages,
\* totalPages, pageCount at top level, then among the same under data;
\* otherwise the ceiling of the largest non-negative total over the size, at
\* least 1; otherwise None. A value that is not None is kept on later pages.
C33_FixedPriorityFirstMatch ==
    prog = "dp" /\ dp.pc # "first" =>
        LET t == dp.payload.top
            d == dp.payload.data
            order  == <<t.pages, t.totalPages, t.pageCount,
                        d.pages, d.totalPages, d.pageCount>>
            hits   == {i \in 1..6 : order[i] > 0}
            totals == {v \in {d.total, d.totalCount, d.records, d.recordCount,
                              t.total, t.totalCount, t.records, t.recordCount} : v >= 0}
            most   == CHOOSE m \in totals : \A v \in totals : v <= m
            pages  == (most + dp.size - 1) \div dp.size
            found  == IF hits # {}
                      THEN order[CHOOSE i \in hits : \A j \in hits : i <= j]
                      ELSE IF totals # {}
                      THEN (IF pages > 0 THEN pages ELSE 1)
                      ELSE SDNone
        IN  dp.total_pages = IF dp.prev # SDNone THEN dp.prev ELSE found

\* C33 witness: the first page had no pagination field, the later page carries
\* page counts at both levels and the top-level totalPages is taken
C33_Witness ==
    /\ prog = "dp" /\ dp.pc = "done" /\ dp.prev = SDNone
    /\ dp.payload.top.pages = 0 /\ dp.payload.top.totalPages = 2
    /\ dp.payload.data.pages = 4 /\ dp.payload.data.total = MaxTotal
    /\ dp.total_pages = 2

\* a value found on the first page is kept although the later page says more
C33_WitnessKept ==
    /\ prog = "dp" /\ dp.pc = "done" /\ dp.prev = 5
    /\ dp.payload.top.pages = 1 /\ dp.total_pages = 5

\* C34: the browser crawl goes on to its normal end (the consolidation of the
\* log into the final files) only when the next-page control is absent or
\* disabled, that is on the last page; a failure to move to the next page does
\* not end the crawl as exhausted
C34_ExhaustedOnlyWithoutNext ==
    prog = "hb" /\ hb.pc = "consolidate" => hb.cur >= HBNumPages(hb.src)

\* C35: a run that follows a completed run, with no fetch failing, ends
\* without raising, adds no row and leaves the checkpoint at the value it
\* started from
C35_RerunKeepsCheckpoint ==
    prog = "rr" /\ rr.run >= 2 /\ rr.pc \in {"done", "no_data"} =>
        /\ rr.pc = "done"
        /\ rr.rows = 0
        /\ rr.ckpt = rr.before

\* C36: a resumed 贵州 run starts at the first page whose items are not all in
\* the log: no record stands twice among the complete lines of the log, and
\* when the crawl reaches the end of the source every record has a line
C36_ResumeStartsAtFirstMissingPage ==
    prog = "gz" /\ gz.pc # "off" =>
        /\ \A i, j \in 1..Len(gz.jsonl) :
             i # j /\ gz.jsonl[i].st = "ok" /\ gz.jsonl[j].st = "ok"
                 => gz.jsonl[i].pos # gz.jsonl[j].pos
        /\ gz.pc = "consolidate" =>
             \A k \in 1..Len(gz.src) : \E i \in 1..Len(gz.jsonl) : gz.jsonl[i].pos = k

\* C37: every crawl loop stops after finitely many page requests against a
\* server that holds finitely many records and answers the pages past the end
\* with an empty list, whatever total-pages value it reports
C37_EveryLoopTerminates ==
    <>(prog = "tm" /\ tm.pc \in {"done", "raised"})

\* C37 witness: a loop ended on the empty page past the end of the source
\* although the reported total pages promised more
C37_Witness ==
    /\ prog = "tm" /\ tm.pc = "done" /\ tm.L >= 2
    /\ tm.meta > tm.L /\ tm.page = tm.L + 1 /\ tm.requests = tm.L + 1

\* C38: with max_pages = m one run requests at most m distinct pages, all of
\* them among the m pages from its start page on, whatever the server returns
C38_AtMostMaxPages ==
    prog = "mp" =>
        /\ Cardinality(mp.requested) <= mp.max_pages
        /\ \A p \in mp.requested : p < mp.start_page + mp.max_pages

\* C39: the detail run terminates under fair scheduling: a run that started
\* comes to write its output; by then every queued row was taken by exactly
\* one worker and is marked done, the queue is empty and every worker has
\* taken a stop sentinel and exited, whatever process_one came to
C39_DetailRunTerminates ==
    /\ [](prog = "dt" /\ dt.pc = "saved" /\ dt.queued # {} =>
            /\ \A t \in dt.queued :
                 /\ Cardinality({i \in 1..Len(dt.taken) : dt.taken[i] = t}) = 1
                 /\ dt.done_map[t] # -1
            /\ dt.queue = <<>>
            /\ \A k \in 1..DT_CONCURRENCY : dt.w[k].pc = "closed")
    /\ (prog = "dt" /\ dt.pc = "start") ~> (dt.pc = "saved")

\* C39 witness: the run ended with its workers closed after process_one
\* raised for one row and gave a date for another
C39_Witness ==
    /\ prog = "dt" /\ dt.pc = "saved" /\ Cardinality(dt.queued) >= 2
    /\ \A k \in 1..DT_CONCURRENCY : dt.w[k].pc = "closed"
    /\ \E i, j \in 1..Len(dt.jl) :
         dt.jl[i].error = "fatal_navigation" /\ dt.jl[j].error = "none"

====
